---------------------------- MODULE Spec2Model ----------------------------
(***************************************************************************)
(* A model of the rhythm-judgment core of rhythm-synth-game:               *)
(*   GameEngine   (src/src/game/GameEngine.ts)                             *)
(*   NoteJudge, TrackGenerator (src/src/game/NoteJudge.ts)                 *)
(*   DIFFICULTY_SETTINGS, NOTES (src/src/types/game.ts)                    *)
(*   SynthEngine recording (src/unnamed/part_001)                          *)
(*                                                                         *)
(* Units.  The code computes in floating-point milliseconds and pixels.    *)
(* The generator produces quarter-millisecond note times (a rapid burst    *)
(* offsets its notes by beatInterval / 4 = 93.75 ms at 160 bpm), so every   *)
(* time of the model is an integer number of TICKS of 1/4 ms: Ms(n) is n   *)
(* milliseconds.  A note position y is an integer number of 1/4000 pixel:  *)
(* Px(n) is n pixels, and a note that is t ticks away from its time at     *)
(* speed s px/s is t * s units away from the judgment line.                *)
(*                                                                         *)
(* Clock.  The engine reads the wall clock only as Date.now() - startTime  *)
(* (GameEngine.ts lines 203, 240, 395, 596).  The variable clock is the    *)
(* last such reading; every later reading is at least as large, a whole    *)
(* number of milliseconds, and drawn from a sample of the values the       *)
(* difference can take (ObsTimes).                                         *)
(***************************************************************************)
EXTENDS Integers, Sequences, FiniteSets, TLC

VARIABLES
    state,            \* GameEngine.state : GameState
    track,            \* GameEngine.track : Track | null (its notes are the objects of activeNotes)
    activeNotes,      \* GameEngine.activeNotes : GameNote[]
    difficultyConfig, \* GameEngine.difficultyConfig, as the tier whose DIFFICULTY_SETTINGS entry it is
    judgeConfig,      \* NoteJudge.config of GameEngine.judge, as a tier
    config,           \* GameEngine.config : GameConfig
    animationId,      \* GameEngine.animationId : number | null
    pendingFrames,    \* the host's requestAnimationFrame queue: handles scheduled, not yet run or cancelled
    pressedKeys,      \* GameEngine.pressedKeys : Set<string>
    clock,            \* the last reading of Date.now() - GameEngine.startTime, in ticks
    recording,        \* SynthEngine.recording : RecordedNote[]
    isRecording,      \* SynthEngine.isRecording
    out,              \* what the engine emitted to its collaborators since the last start(), in order
    inputs,           \* number of lane inputs the running tier accepted since start (bounds the run)
    sampled,          \* the clock readings the model samples in this run (fixed by start)
    probe             \* the last two direct calls of NoteJudge.judge and their results (SpecJudge)

vars == <<state, track, activeNotes, difficultyConfig, judgeConfig, config,
          animationId, pendingFrames, pressedKeys, clock, recording,
          isRecording, out, inputs, sampled, probe>>

engineVars == <<state, track, activeNotes, difficultyConfig, judgeConfig, config,
                animationId, pendingFrames, pressedKeys, clock, recording,
                isRecording, out, inputs, sampled>>

---------------------------------------------------------------------------
(* Bounds of the model *)

\* in the tracks start() is given, generateTrack's loop ran
\* min(noteCount, MaxSteps) steps
MaxSteps == 2

\* in the tracks start() is given, Math.random() landed in one of the first
\* min(laneCount, MaxRandom) lanes
MaxRandom == 2

\* lane inputs the host delivers to a running engine per run
MaxInputs == 2

\* milliseconds the clock may advance between two reads within one handler
MaxSkew == 1

---------------------------------------------------------------------------
(* Units and small helpers *)

Ms(n) == 4 * n

Px(n) == 4000 * n

Min(a, b) == IF a <= b THEN a ELSE b

Max(a, b) == IF a >= b THEN a ELSE b

Abs(x) == IF x < 0 THEN -x ELSE x

NULL == "null"

---------------------------------------------------------------------------
(* src/src/types/game.ts *)

Difficulty == {"easy", "normal", "hard", "expert"}

JudgmentType == {"perfect", "good", "bad", "miss"}

\* the tier table with the good window of Easy no wider than its perfect window
DifficultySettingsFlatEasy ==
    [d \in Difficulty |->
        CASE d = "easy" ->
               [noteSpeed |-> 120,
                judgmentWindow |-> [perfect |-> 120, good |-> 120, bad |-> 350],
                noteCount |-> 10,
                availableKeys |-> <<"C", "E", "G">>,
                bpm |-> 80]
          [] d = "normal" ->
               [noteSpeed |-> 220,
                judgmentWindow |-> [perfect |-> 100, good |-> 200, bad |-> 300],
                noteCount |-> 18,
                availableKeys |-> <<"C", "D", "E", "F", "G">>,
                bpm |-> 120]
          [] d = "hard" ->
               [noteSpeed |-> 280,
                judgmentWindow |-> [perfect |-> 80, good |-> 150, bad |-> 220],
                noteCount |-> 28,
                availableKeys |-> <<"C", "D", "E", "F", "G", "A", "B">>,
                bpm |-> 160]
          [] d = "expert" ->
               [noteSpeed |-> 280,
                judgmentWindow |-> [perfect |-> 80, good |-> 150, bad |-> 220],
                noteCount |-> 28,
                availableKeys |-> <<"C", "C#", "D", "D#", "E", "F", "F#", "G", "G#", "A", "A#", "B">>,
                bpm |-> 160]]

\* noteSpeed px/s, judgmentWindow ms, bpm beats/min, as written in the source
DIFFICULTY_SETTINGS ==
    [d \in Difficulty |->
        CASE d = "easy" ->
               [noteSpeed |-> 120,
                judgmentWindow |-> [perfect |-> 120, good |-> 250, bad |-> 350],
                noteCount |-> 10,
                availableKeys |-> <<"C", "E", "G">>,
                bpm |-> 80]
          [] d = "normal" ->
               [noteSpeed |-> 220,
                judgmentWindow |-> [perfect |-> 100, good |-> 200, bad |-> 300],
                noteCount |-> 18,
                availableKeys |-> <<"C", "D", "E", "F", "G">>,
                bpm |-> 120]
          [] d = "hard" ->
               [noteSpeed |-> 280,
                judgmentWindow |-> [perfect |-> 80, good |-> 150, bad |-> 220],
                noteCount |-> 28,
                availableKeys |-> <<"C", "D", "E", "F", "G", "A", "B">>,
                bpm |-> 160]
          [] d = "expert" ->
               [noteSpeed |-> 280,
                judgmentWindow |-> [perfect |-> 80, good |-> 150, bad |-> 220],
                noteCount |-> 28,
                availableKeys |-> <<"C", "C#", "D", "D#", "E", "F", "F#", "G", "G#", "A", "A#", "B">>,
                bpm |-> 160]]

\* NOTES: base frequencies in 1/100 Hz
NOTES ==
    [n \in {"C", "C#", "D", "D#", "E", "F", "F#", "G", "G#", "A", "A#", "B"} |->
        CASE n = "C"  -> 26163 [] n = "C#" -> 27718 [] n = "D"  -> 29366
          [] n = "D#" -> 31113 [] n = "E"  -> 32963 [] n = "F"  -> 34923
          [] n = "F#" -> 36999 [] n = "G"  -> 39200 [] n = "G#" -> 41530
          [] n = "A"  -> 44000 [] n = "A#" -> 46616 [] n = "B"  -> 49388]

\* the octave createNote passes
Octave == 4

\* noteToFrequency(note, octave): "throw" stands for the Error it throws on an
\* unknown name; only octave 4 is ever requested, where Math.pow(2, 0) = 1
noteToFrequency(note, octave) ==
    IF note \notin DOMAIN NOTES THEN "throw"
    ELSE IF octave = 4 THEN NOTES[note]
    ELSE IF octave > 4 THEN NOTES[note] * (2 ^ (octave - 4))
    ELSE NOTES[note] \div (2 ^ (4 - octave))

---------------------------------------------------------------------------
(* NoteJudge (src/src/game/NoteJudge.ts) *)

\* judge with the edges of the windows excluded
judgeExclusive(cfg, playerTime, targetTime) ==
    LET diff == Abs(playerTime - targetTime)
        w    == DIFFICULTY_SETTINGS[cfg].judgmentWindow
    IN  IF diff < Ms(w.perfect) THEN
            [type |-> "perfect", score |-> 100, combo |-> TRUE,
             message |-> "PERFECT!", timing |-> diff]
        ELSE IF diff < Ms(w.good) THEN
            [type |-> "good", score |-> 50, combo |-> TRUE,
             message |-> "Good", timing |-> diff]
        ELSE IF diff < Ms(w.bad) THEN
            [type |-> "bad", score |-> 10, combo |-> FALSE,
             message |-> "Bad", timing |-> diff]
        ELSE
            [type |-> "miss", score |-> 0, combo |-> FALSE,
             message |-> "Miss", timing |-> diff]

\* judge with a bad that keeps the combo
judgeBadKeepsCombo(cfg, playerTime, targetTime) ==
    LET diff == Abs(playerTime - targetTime)
        w    == DIFFICULTY_SETTINGS[cfg].judgmentWindow
    IN  IF diff <= Ms(w.perfect) THEN
            [type |-> "perfect", score |-> 100, combo |-> TRUE,
             message |-> "PERFECT!", timing |-> diff]
        ELSE IF diff <= Ms(w.good) THEN
            [type |-> "good", score |-> 50, combo |-> TRUE,
             message |-> "Good", timing |-> diff]
        ELSE IF diff <= Ms(w.bad) THEN
            [type |-> "bad", score |-> 10, combo |-> TRUE,
             message |-> "Bad", timing |-> diff]
        ELSE
            [type |-> "miss", score |-> 0, combo |-> FALSE,
             message |-> "Miss", timing |-> diff]

\* judge on the signed difference: Math.abs left out of the comparisons
judgeSigned(cfg, playerTime, targetTime) ==
    LET diff == playerTime - targetTime
        w    == DIFFICULTY_SETTINGS[cfg].judgmentWindow
    IN  IF diff <= Ms(w.perfect) THEN
            [type |-> "perfect", score |-> 100, combo |-> TRUE,
             message |-> "PERFECT!", timing |-> Abs(diff)]
        ELSE IF diff <= Ms(w.good) THEN
            [type |-> "good", score |-> 50, combo |-> TRUE,
             message |-> "Good", timing |-> Abs(diff)]
        ELSE IF diff <= Ms(w.bad) THEN
            [type |-> "bad", score |-> 10, combo |-> FALSE,
             message |-> "Bad", timing |-> Abs(diff)]
        ELSE
            [type |-> "miss", score |-> 0, combo |-> FALSE,
             message |-> "Miss", timing |-> Abs(diff)]

\* judge(playerTime, targetTime) under the thresholds of tier cfg; times in ticks
judge(cfg, playerTime, targetTime) ==
    LET diff == Abs(playerTime - targetTime)
        w    == DIFFICULTY_SETTINGS[cfg].judgmentWindow
    IN  IF diff <= Ms(w.perfect) THEN
            [type |-> "perfect", score |-> 100, combo |-> TRUE,
             message |-> "PERFECT!", timing |-> diff]
        ELSE IF diff <= Ms(w.good) THEN
            [type |-> "good", score |-> 50, combo |-> TRUE,
             message |-> "Good", timing |-> diff]
        ELSE IF diff <= Ms(w.bad) THEN
            [type |-> "bad", score |-> 10, combo |-> FALSE,
             message |-> "Bad", timing |-> diff]
        ELSE
            [type |-> "miss", score |-> 0, combo |-> FALSE,
             message |-> "Miss", timing |-> diff]

\* getEffects with the volume of good as loud as that of perfect
getEffectsLoudGood(judgment) ==
    CASE judgment = "perfect" ->
           [waveform |-> "sine", volume |-> 10, reverb |-> 3, detune |-> 0, filterFreq |-> 5000]
      [] judgment = "good" ->
           [waveform |-> "sine", volume |-> 10, reverb |-> 2, detune |-> 5, filterFreq |-> 3000]
      [] judgment = "bad" ->
           [waveform |-> "square", volume |-> 5, reverb |-> 1, detune |-> 20, filterFreq |-> 1000]
      [] OTHER ->
           [waveform |-> "sawtooth", volume |-> 3, reverb |-> 0, detune |-> 50, filterFreq |-> 500]

\* getEffects(judgment): volume and reverb in 1/10
getEffects(judgment) ==
    CASE judgment = "perfect" ->
           [waveform |-> "sine", volume |-> 10, reverb |-> 3, detune |-> 0, filterFreq |-> 5000]
      [] judgment = "good" ->
           [waveform |-> "sine", volume |-> 8, reverb |-> 2, detune |-> 5, filterFreq |-> 3000]
      [] judgment = "bad" ->
           [waveform |-> "square", volume |-> 5, reverb |-> 1, detune |-> 20, filterFreq |-> 1000]
      [] OTHER ->
           [waveform |-> "sawtooth", volume |-> 3, reverb |-> 0, detune |-> 50, filterFreq |-> 500]

---------------------------------------------------------------------------
(* TrackGenerator (src/src/game/NoteJudge.ts) *)

\* lead-in before the first note and margin after the last step, ms
LeadIn == 2000

TrailingMargin == 2000

\* getPattern(difficulty, index); duration in tenths of a beat
getPattern(difficulty, index) ==
    CASE difficulty = "easy" ->
           [type |-> "single", notes |-> 1, duration |-> 15]
      [] difficulty = "normal" ->
           IF index % 20 = 0 /\ index > 0
           THEN [type |-> "chord", notes |-> 2, duration |-> 12]
           ELSE [type |-> "single", notes |-> 1, duration |-> 10]
      [] difficulty = "hard" ->
           IF index % 25 = 0 /\ index > 0
           THEN [type |-> "chord", notes |-> 2, duration |-> 12]
           ELSE IF index % 15 = 0 /\ index > 0
           THEN [type |-> "rapid", notes |-> 3, duration |-> 10]
           ELSE [type |-> "single", notes |-> 1, duration |-> 8]
      [] difficulty = "expert" ->
           LET r == index % 30
           IN  IF r = 0 /\ index > 0
               THEN [type |-> "chord", notes |-> 2, duration |-> 10]
               ELSE IF r % 18 = 0 /\ index > 0
               THEN [type |-> "rapid", notes |-> 4, duration |-> 8]
               ELSE [type |-> "single", notes |-> 1, duration |-> 6]

\* createNote(id, time, lane, availableKeys); id in tenths (a rapid note's id is i + j/10)
createNote(id, time, lane, availableKeys) ==
    LET noteName == availableKeys[lane + 1]
    IN  [id |-> <<id, lane>>,
         time |-> time,
         lane |-> lane,
         frequency |-> noteToFrequency(noteName, Octave),
         noteName |-> noteName,
         y |-> 0,
         active |-> TRUE]

\* randomLane(availableKeys): every lane Math.floor(Math.random() * length) can give
randomLane(availableKeys) == 0 .. (Len(availableKeys) - 1)

\* ascending sequence of the elements of a finite set of integers
RECURSIVE SortedSeq(_)
SortedSeq(S) ==
    IF S = {} THEN <<>>
    ELSE LET m == CHOOSE x \in S : \A z \in S : x <= z
         IN  <<m>> \o SortedSeq(S \ {m})

\* getChord without the test lanes.includes(lane): min(count, maxLane) random
\* lanes, sorted ascending, repeats allowed
getChordWithRepeats(availableKeys, count) ==
    LET maxLane == Len(availableKeys)
        n       == Min(count, maxLane)
    IN  {q \in [1 .. n -> randomLane(availableKeys)] :
            \A k \in 1 .. (n - 1) : q[k] <= q[k + 1]}

\* getChord(availableKeys, count): every result the loop can end with, i.e. every
\* set of min(count, maxLane) distinct random lanes, sorted ascending
getChord(availableKeys, count) ==
    LET maxLane == Len(availableKeys)
        n       == Min(count, maxLane)
    IN  {SortedSeq(S) : S \in {T \in SUBSET randomLane(availableKeys) : Cardinality(T) = n}}

\* the steps generateTrack takes for tier difficulty within the bound
StepCount(cfg) == Min(cfg.noteCount, MaxSteps)

\* one beat of tier cfg, in ticks
BeatInterval(cfg) == Ms(60 * 1000) \div cfg.bpm

\* the body of generateTrack's loop with a rapid burst spaced by whole beats
StepNotesWideRapid(difficulty, cfg, i, currentTime) ==
    LET availableKeys == cfg.availableKeys
        pattern       == getPattern(difficulty, i)
    IN  CASE pattern.type = "single" ->
               {<<createNote(10 * i, currentTime, lane, availableKeys)>> :
                    lane \in randomLane(availableKeys)}
          [] pattern.type = "chord" ->
               {[k \in 1 .. Len(lanes) |->
                    createNote(10 * i, currentTime, lanes[k], availableKeys)] :
                    lanes \in getChord(availableKeys, pattern.notes)}
          [] pattern.type = "rapid" ->
               {[k \in 1 .. pattern.notes |->
                    createNote(10 * i + (k - 1),
                               currentTime + BeatInterval(cfg) * (k - 1),
                               lanes[k], availableKeys)] :
                    lanes \in [1 .. pattern.notes -> randomLane(availableKeys)]}

\* The body of generateTrack's loop at step i with the cursor at currentTime:
\* the notes it pushes, in order, one sequence per outcome of the random choices
StepNotes(difficulty, cfg, i, currentTime) ==
    LET availableKeys == cfg.availableKeys
        pattern       == getPattern(difficulty, i)
    IN  CASE pattern.type = "single" ->
               {<<createNote(10 * i, currentTime, lane, availableKeys)>> :
                    lane \in randomLane(availableKeys)}
          [] pattern.type = "chord" ->
               {[k \in 1 .. Len(lanes) |->
                    createNote(10 * i, currentTime, lanes[k], availableKeys)] :
                    lanes \in getChord(availableKeys, pattern.notes)}
          [] pattern.type = "rapid" ->
               {[k \in 1 .. pattern.notes |->
                    createNote(10 * i + (k - 1),
                               currentTime + (BeatInterval(cfg) \div 4) * (k - 1),
                               lanes[k], availableKeys)] :
                    lanes \in [1 .. pattern.notes -> randomLane(availableKeys)]}

\* the cursor advanced by half a beat whatever the pattern
StepNextHalfBeat(difficulty, cfg, i, currentTime) ==
    currentTime + BeatInterval(cfg) \div 2

\* currentTime += beatInterval * pattern.duration
StepNext(difficulty, cfg, i, currentTime) ==
    currentTime + (BeatInterval(cfg) * getPattern(difficulty, i).duration) \div 10

\* The loop of generateTrack from step i with the cursor at currentTime, within
\* the bounds (MaxSteps steps, random lanes among the first MaxRandom): the set
\* of <<notes pushed from step i on, final cursor>>, one per outcome of the
\* random choices.
RECURSIVE GenerateFrom(_, _, _, _)
GenerateFrom(difficulty, cfg, i, currentTime) ==
    IF i >= StepCount(cfg) THEN {<<(<<>>), currentTime>>}
    ELSE
      LET next   == StepNext(difficulty, cfg, i, currentTime)
          pushed == {q \in StepNotes(difficulty, cfg, i, currentTime) :
                        \A k \in DOMAIN q : q[k].lane < MaxRandom}
      IN  {<<q \o rest[1], rest[2]>> :
              q \in pushed, rest \in GenerateFrom(difficulty, cfg, i + 1, next)}

\* generateTrack(difficulty, config): every track it can return within the bounds
generateTrack(difficulty, cfg) ==
    {[difficulty |-> difficulty,
      bpm |-> cfg.bpm,
      notes |-> g[1],
      duration |-> g[2] + Ms(TrailingMargin)] :
        g \in GenerateFrom(difficulty, cfg, 0, Ms(LeadIn))}

---------------------------------------------------------------------------
(* SynthEngine recording (src/unnamed/part_001) *)

\* playNote(frequency, duration, effects): the cue handed to the audio hardware;
\* duration in tenths of a second
AudioCue(frequency, duration, effects) ==
    [frequency |-> frequency, duration |-> duration, effects |-> effects]

\* playNote's "if (this.isRecording) this.recording.push(...)"; the entry's
\* judgment field is the literal 'perfect' and its timestamp (an absolute
\* Date.now()) is not modelled
playNoteRecord(rec, isRec, frequency, duration, effects) ==
    IF isRec
    THEN Append(rec, [frequency |-> frequency, duration |-> duration,
                      waveform |-> effects.waveform, judgment |-> "perfect",
                      effects |-> effects])
    ELSE rec

---------------------------------------------------------------------------
(* GameEngine (src/src/game/GameEngine.ts) *)

\* constructor: this.config
CanvasWidth == 800

JudgeLineY == 500

NoteHeight == 20

MaxLaneWidth == 100

\* update: const missThreshold = judgeLineY + 200
MissSlack == 200

\* animationId = null
NoHandle == 0

\* track = null
NoTrack == [difficulty |-> NULL, bpm |-> 0, duration |-> 0]

\* the key -> lane table with the keys from s on moved one lane up
keyMapShifted ==
    [k \in {"a", "s", "d", "f", "g", "h", "j", "k", "l", "b", "n", "m"} |->
        CASE k = "a" -> 0 [] k = "s" -> 2 [] k = "d" -> 3 [] k = "f" -> 4
          [] k = "g" -> 5 [] k = "h" -> 6 [] k = "j" -> 7 [] k = "k" -> 8
          [] k = "l" -> 9 [] k = "b" -> 10 [] k = "n" -> 11 [] k = "m" -> 12]

\* setupKeyBindings: the key -> lane table
keyMap ==
    [k \in {"a", "s", "d", "f", "g", "h", "j", "k", "l", "b", "n", "m"} |->
        CASE k = "a" -> 0 [] k = "s" -> 1 [] k = "d" -> 2 [] k = "f" -> 3
          [] k = "g" -> 4 [] k = "h" -> 5 [] k = "j" -> 6 [] k = "k" -> 7
          [] k = "l" -> 8 [] k = "b" -> 9 [] k = "n" -> 10 [] k = "m" -> 11]

createInitialState ==
    [score |-> 0, combo |-> 0, maxCombo |-> 0,
     perfectCount |-> 0, goodCount |-> 0, badCount |-> 0, missCount |-> 0,
     isPlaying |-> FALSE, isPaused |-> FALSE, currentTime |-> 0]

\* nothing emitted
Silent == [cues |-> <<>>, judgments |-> <<>>, scoreUpdates |-> <<>>, gameEnd |-> <<>>]

\* handleMiss that leaves the combo alone
handleMissKeepsCombo(st) ==
    [st EXCEPT !.missCount = @ + 1]

\* handleMiss(lane): the new state (the caller emits onScoreUpdate(score, combo))
handleMiss(st) ==
    [st EXCEPT !.missCount = @ + 1, !.combo = 0]

\* updateScore that leaves maxCombo alone
updateScoreKeepsMax(st, judgment) ==
    LET s1 == [st EXCEPT !.score = @ + judgment.score]
        s2 == IF judgment.combo
              THEN [s1 EXCEPT !.combo = @ + 1]
              ELSE [s1 EXCEPT !.combo = 0]
    IN  CASE judgment.type = "perfect" -> [s2 EXCEPT !.perfectCount = @ + 1]
          [] judgment.type = "good"    -> [s2 EXCEPT !.goodCount = @ + 1]
          [] judgment.type = "bad"     -> [s2 EXCEPT !.badCount = @ + 1]
          [] judgment.type = "miss"    -> [s2 EXCEPT !.missCount = @ + 1]

\* updateScore adding the running combo to the score as a bonus
updateScoreComboBonus(st, judgment) ==
    LET s1 == [st EXCEPT !.score = @ + judgment.score + st.combo]
        s2 == IF judgment.combo
              THEN [s1 EXCEPT !.combo = @ + 1,
                              !.maxCombo = IF s1.combo + 1 > @ THEN s1.combo + 1 ELSE @]
              ELSE [s1 EXCEPT !.combo = 0]
    IN  CASE judgment.type = "perfect" -> [s2 EXCEPT !.perfectCount = @ + 1]
          [] judgment.type = "good"    -> [s2 EXCEPT !.goodCount = @ + 1]
          [] judgment.type = "bad"     -> [s2 EXCEPT !.badCount = @ + 1]
          [] judgment.type = "miss"    -> [s2 EXCEPT !.missCount = @ + 1]

\* updateScore(judgment): the new state (the caller emits onScoreUpdate(score, combo))
updateScore(st, judgment) ==
    LET s1 == [st EXCEPT !.score = @ + judgment.score]
        s2 == IF judgment.combo
              THEN [s1 EXCEPT !.combo = @ + 1,
                              !.maxCombo = IF s1.combo + 1 > @ THEN s1.combo + 1 ELSE @]
              ELSE [s1 EXCEPT !.combo = 0]
    IN  CASE judgment.type = "perfect" -> [s2 EXCEPT !.perfectCount = @ + 1]
          [] judgment.type = "good"    -> [s2 EXCEPT !.goodCount = @ + 1]
          [] judgment.type = "bad"     -> [s2 EXCEPT !.badCount = @ + 1]
          [] judgment.type = "miss"    -> [s2 EXCEPT !.missCount = @ + 1]

\* the loop of findNearestNote with diff <= minDiff: of the notes equally near,
\* the last one wins
RECURSIVE NearestFromLastTie(_, _, _, _, _, _, _)
NearestFromLastTie(notes, lane, currentTime, maxDiff, i, nearest, minDiff) ==
    IF i > Len(notes) THEN nearest
    ELSE LET note == notes[i]
             diff == Abs(note.time - currentTime)
         IN  IF /\ note.lane = lane
                /\ note.active
                /\ (minDiff = -1 \/ diff <= minDiff)
                /\ diff <= maxDiff
             THEN NearestFromLastTie(notes, lane, currentTime, maxDiff, i + 1, i, diff)
             ELSE NearestFromLastTie(notes, lane, currentTime, maxDiff, i + 1, nearest, minDiff)

\* the loop of findNearestNote without the test of note.active
RECURSIVE NearestFromAnyNote(_, _, _, _, _, _, _)
NearestFromAnyNote(notes, lane, currentTime, maxDiff, i, nearest, minDiff) ==
    IF i > Len(notes) THEN nearest
    ELSE LET note == notes[i]
             diff == Abs(note.time - currentTime)
         IN  IF /\ note.lane = lane
                /\ (minDiff = -1 \/ diff < minDiff)
                /\ diff <= maxDiff
             THEN NearestFromAnyNote(notes, lane, currentTime, maxDiff, i + 1, i, diff)
             ELSE NearestFromAnyNote(notes, lane, currentTime, maxDiff, i + 1, nearest, minDiff)

\* the loop of findNearestNote from index i, with the nearest note found so far
\* (0: none) and its diff (-1: Infinity)
RECURSIVE NearestFrom(_, _, _, _, _, _, _)
NearestFrom(notes, lane, currentTime, maxDiff, i, nearest, minDiff) ==
    IF i > Len(notes) THEN nearest
    ELSE LET note == notes[i]
             diff == Abs(note.time - currentTime)
         IN  IF /\ note.lane = lane
                /\ note.active
                /\ (minDiff = -1 \/ diff < minDiff)
                /\ diff <= maxDiff
             THEN NearestFrom(notes, lane, currentTime, maxDiff, i + 1, i, diff)
             ELSE NearestFrom(notes, lane, currentTime, maxDiff, i + 1, nearest, minDiff)

\* findNearestNote with the good window as the limit
findNearestNoteGoodWindow(notes, dcfg, lane, currentTime) ==
    NearestFrom(notes, lane, currentTime,
                Ms(DIFFICULTY_SETTINGS[dcfg].judgmentWindow.good), 1, 0, -1)

\* findNearestNote(lane) at clock reading currentTime: the index of the note in
\* activeNotes, 0 for null
findNearestNote(notes, dcfg, lane, currentTime) ==
    NearestFrom(notes, lane, currentTime,
                Ms(DIFFICULTY_SETTINGS[dcfg].judgmentWindow.bad), 1, 0, -1)

\* update with a note not yet on screen placed noteHeight below the top edge
notePositionBelowTop(note, dcfg, cfg, currentTime) ==
    LET noteSpeed   == DIFFICULTY_SETTINGS[dcfg].noteSpeed
        timeToJudge == note.time - currentTime
    IN  IF timeToJudge * noteSpeed > Px(cfg.judgeLineY) THEN Px(cfg.noteHeight)
        ELSE IF timeToJudge >= 0 THEN Px(cfg.judgeLineY) - timeToJudge * noteSpeed
        ELSE Px(cfg.judgeLineY) + Abs(timeToJudge) * noteSpeed

\* update: the position of a note at clock reading currentTime
notePosition(note, dcfg, cfg, currentTime) ==
    LET noteSpeed   == DIFFICULTY_SETTINGS[dcfg].noteSpeed
        timeToJudge == note.time - currentTime
    IN  IF timeToJudge * noteSpeed > Px(cfg.judgeLineY) THEN -Px(cfg.noteHeight)
        ELSE IF timeToJudge >= 0 THEN Px(cfg.judgeLineY) - timeToJudge * noteSpeed
        ELSE Px(cfg.judgeLineY) + Abs(timeToJudge) * noteSpeed

\* the sweep test without the slack: a note is swept once below the line
pastMissThresholdNoSlack(y, cfg) == y > Px(cfg.judgeLineY)

\* the sweep test with a slack of a note's height only
pastMissThresholdNarrow(y, cfg) == y > Px(cfg.judgeLineY + cfg.noteHeight)

\* update: note.y > missThreshold
pastMissThreshold(y, cfg) == y > Px(cfg.judgeLineY + MissSlack)

\* the loop of update from index i: [notes, state, scoreUpdates]
RECURSIVE UpdateFrom(_, _, _, _, _, _, _)
UpdateFrom(notes, st, ups, dcfg, cfg, currentTime, i) ==
    IF i > Len(notes) THEN [notes |-> notes, state |-> st, scoreUpdates |-> ups]
    ELSE IF ~notes[i].active
    THEN UpdateFrom(notes, st, ups, dcfg, cfg, currentTime, i + 1)
    ELSE LET y == notePosition(notes[i], dcfg, cfg, currentTime)
         IN  IF pastMissThreshold(y, cfg)
             THEN LET st2 == handleMiss(st)
                  IN  UpdateFrom([notes EXCEPT ![i].y = y, ![i].active = FALSE],
                                 st2,
                                 Append(ups, <<st2.score, st2.combo>>),
                                 dcfg, cfg, currentTime, i + 1)
             ELSE UpdateFrom([notes EXCEPT ![i].y = y], st, ups,
                             dcfg, cfg, currentTime, i + 1)

\* update(_deltaTime) at clock reading currentTime
update(notes, st, dcfg, cfg, currentTime) ==
    UpdateFrom(notes, [st EXCEPT !.currentTime = currentTime], <<>>,
               dcfg, cfg, currentTime, 1)

\* checkGameEnd with the end condition met at the duration itself
checkGameEndAtDuration(trk, currentTime) ==
    IF trk.difficulty = NULL THEN FALSE
    ELSE currentTime >= trk.duration

\* checkGameEnd with the end condition met once the generator's cursor is
\* passed, without the margin generateTrack adds to the duration
checkGameEndAtCursor(trk, currentTime) ==
    IF trk.difficulty = NULL THEN FALSE
    ELSE currentTime > trk.duration - Ms(TrailingMargin)

\* checkGameEnd() at clock reading currentTime
checkGameEnd(trk, currentTime) ==
    IF trk.difficulty = NULL THEN FALSE
    ELSE currentTime > trk.duration

\* requestAnimationFrame's return value: a handle no pending callback has
NewHandle(pend) == CHOOSE h \in 1 .. (Cardinality(pend) + 1) : h \notin pend

---------------------------------------------------------------------------
(* The environment: the wall clock and the host's events *)

\* Offsets (ms) from a note's time at which the model delivers lane inputs:
\* the note's time, the perfect and good edges of the tier after it, both sides
\* of the bad edge after and before it and, in a Normal run, the four deltas of
\* the Normal scenario.
InputOffsets(dcfg) ==
    LET w        == DIFFICULTY_SETTINGS[dcfg].judgmentWindow
        edges    == {w.perfect, w.good, w.bad, w.bad + 1}
        early    == {-w.bad, -(w.bad + 1)}
        scenario == IF dcfg = "normal" THEN {50, 150, 250, 400} ELSE {}
    IN  {0} \cup edges \cup early \cup scenario

\* Offsets (ms) from a note's time at which the model runs frame callbacks: the
\* note on the judgment line and both sides of the sweep threshold.
FrameOffsets(dcfg) ==
    LET sweep == (MissSlack * 1000) \div DIFFICULTY_SETTINGS[dcfg].noteSpeed
    IN  {0, sweep, sweep + 1}

\* notes' times shifted by offsets, as clock readings (whole milliseconds, >= 0)
Shifted(notes, offsets) ==
    {t \in {notes[i].time + Ms(o) : i \in DOMAIN notes, o \in offsets} :
        t >= 0 /\ t % Ms(1) = 0}

\* the clock readings at which the host may deliver a lane input
InputTimes(notes, dcfg) == Shifted(notes, InputOffsets(dcfg))

\* the clock readings at which the host may run a frame callback
FrameTimes(notes, trk, dcfg) ==
    Shifted(notes, FrameOffsets(dcfg)) \cup {0, trk.duration, trk.duration + Ms(1)}

\* the clock readings after which the application may call start() or
\* dispose() during a run: the start of the run, the last note on the judgment
\* line, the last note past the sweep threshold
HostTimes(notes, dcfg) ==
    LET sweep == (MissSlack * 1000) \div DIFFICULTY_SETTINGS[dcfg].noteSpeed
    IN  {0} \cup Shifted(<<notes[Len(notes)]>>, {0, sweep + 1})

\* The clock readings of the model during a run: a sample of the millisecond
\* values Date.now() - startTime can take.
Samples(notes, trk, dcfg) ==
    [input |-> InputTimes(notes, dcfg),
     frame |-> FrameTimes(notes, trk, dcfg),
     host  |-> HostTimes(notes, dcfg)]

NoSamples == [input |-> {}, frame |-> {}, host |-> {}]

ObsTimes(smp) == smp.input \cup smp.frame

\* a reading of the clock by a handler that starts after the reading c: one of
\* the times sampled for that handler, not before c; past the last of them (and
\* before the first run) the reading c again
FirstRead(c, times) ==
    LET later == {t \in times : t >= c}
    IN  IF later = {} THEN {c} ELSE later

\* a later reading of the clock within the handler that read c
ClockReads(c, smp) ==
    {c} \cup {t \in ObsTimes(smp) : c < t /\ t <= c + Ms(MaxSkew)}

\* keys the keyboard sends: a mapped key (lane 9) and an unmapped one
Keys == {"b", "q"}

\* lanes the on-screen keyboard (UIManager) or any caller of the public
\* processLaneInput passes
LaneInputs == {-1, 0, 1, 3}

\* x-coordinates (px, canvas space) of pointer events
PointerXs == {149, 150, 250, 650}

---------------------------------------------------------------------------
(* GameEngine: the handlers *)

\* the tail of animate() without line 388: no next frame is requested
animateTailNoRequest(u, trk, rec, isRec, aid, pend, o, r2) ==
    IF checkGameEnd(trk, r2)
    THEN LET final == [u.state EXCEPT !.isPlaying = FALSE]
         IN  /\ state' = final
             /\ isRecording' = FALSE
             /\ animationId' = aid
             /\ pendingFrames' = pend
             /\ out' = [o EXCEPT !.scoreUpdates = @ \o u.scoreUpdates,
                                 !.gameEnd = Append(@, [state |-> final, recording |-> rec])]
    ELSE /\ state' = u.state
         /\ isRecording' = isRec
         /\ animationId' = aid
         /\ pendingFrames' = pend
         /\ out' = [o EXCEPT !.scoreUpdates = @ \o u.scoreUpdates]

\* endGame() and the rest of animate() after update() and draw(): state, notes
\* and score updates as update() left them, the clock read r2 by checkGameEnd
animateTail(u, trk, rec, isRec, aid, pend, o, r2) ==
    IF checkGameEnd(trk, r2)
    THEN LET final == [u.state EXCEPT !.isPlaying = FALSE]
         IN  /\ state' = final
             /\ isRecording' = FALSE
             /\ animationId' = aid
             /\ pendingFrames' = pend
             /\ out' = [o EXCEPT !.scoreUpdates = @ \o u.scoreUpdates,
                                 !.gameEnd = Append(@, [state |-> final, recording |-> rec])]
    ELSE LET h == NewHandle(pend)
         IN  /\ state' = u.state
             /\ isRecording' = isRec
             /\ animationId' = h
             /\ pendingFrames' = pend \cup {h}
             /\ out' = [o EXCEPT !.scoreUpdates = @ \o u.scoreUpdates]

\* animate() with isPlaying true: update() reads the clock as r1, checkGameEnd() as r2
animate(st, notes, trk, dcfg, cfg, rec, isRec, aid, pend, o, r1, r2) ==
    LET u == update(notes, st, dcfg, cfg, r1)
    IN  /\ activeNotes' = u.notes
        /\ clock' = r2
        /\ animateTail(u, trk, rec, isRec, aid, pend, o, r2)

\* generateTrack(difficulty, DIFFICULTY_SETTINGS[difficulty]) for each tier, as
\* start() calls it
TracksOf ==
    [d \in Difficulty |-> generateTrack(d, DIFFICULTY_SETTINGS[d])]

\* the sampled clock readings of a run of tier d on track t
SamplesOf ==
    [d \in Difficulty |->
        [t \in TracksOf[d] |->
            Samples(t.notes,
                    [difficulty |-> t.difficulty, bpm |-> t.bpm, duration |-> t.duration],
                    d)]]

\* the application calls start() and dispose() when the engine is not running
\* or, during a run, at the sampled moments
HostDue == state.isPlaying => clock \in sampled.host

\* start(difficulty) without line 356: the counters of the previous run survive
StartKeepsScore(difficulty) ==
    /\ HostDue
    /\ \E t \in TracksOf[difficulty] :
         LET cfg  == [config EXCEPT
                        !.laneCount = Len(DIFFICULTY_SETTINGS[difficulty].availableKeys)]
             trk  == [difficulty |-> t.difficulty, bpm |-> t.bpm, duration |-> t.duration]
             st   == [state EXCEPT !.isPlaying = TRUE]
             pend == IF animationId # NoHandle THEN pendingFrames \ {animationId}
                     ELSE pendingFrames
             smp  == SamplesOf[difficulty][t]
         IN  \E r1 \in ClockReads(0, smp) :
             \E r2 \in ClockReads(r1, smp) :
               /\ difficultyConfig' = difficulty
               /\ judgeConfig' = difficulty
               /\ config' = cfg
               /\ track' = trk
               /\ recording' = <<>>
               /\ inputs' = 0
               /\ sampled' = smp
               /\ animate(st, t.notes, trk, difficulty, cfg, <<>>, TRUE, NoHandle,
                          pend, Silent, r1, r2)
               /\ UNCHANGED <<pressedKeys, probe>>

\* start(difficulty)
Start(difficulty) ==
    /\ HostDue
    /\ \E t \in TracksOf[difficulty] :
         LET cfg  == [config EXCEPT
                        !.laneCount = Len(DIFFICULTY_SETTINGS[difficulty].availableKeys)]
             trk  == [difficulty |-> t.difficulty, bpm |-> t.bpm, duration |-> t.duration]
             st   == [createInitialState EXCEPT !.isPlaying = TRUE]
             pend == IF animationId # NoHandle THEN pendingFrames \ {animationId}
                     ELSE pendingFrames
             smp  == SamplesOf[difficulty][t]
         IN  \E r1 \in ClockReads(0, smp) :
             \E r2 \in ClockReads(r1, smp) :
               /\ difficultyConfig' = difficulty
               /\ judgeConfig' = difficulty
               /\ config' = cfg
               /\ track' = trk
               /\ recording' = <<>>
               /\ inputs' = 0
               /\ sampled' = smp
               /\ animate(st, t.notes, trk, difficulty, cfg, <<>>, TRUE, NoHandle,
                          pend, Silent, r1, r2)
               /\ UNCHANGED <<pressedKeys, probe>>

\* the requestAnimationFrame callback with handle h runs: animate()
Frame ==
    \E h \in pendingFrames :
      LET pend == pendingFrames \ {h}
      IN  IF ~state.isPlaying
          THEN /\ pendingFrames' = pend
               /\ out' = out
               /\ UNCHANGED <<state, track, activeNotes, difficultyConfig,
                              judgeConfig, config, animationId, pressedKeys, clock,
                              recording, isRecording, inputs, sampled, probe>>
          ELSE \E r1 \in FirstRead(clock, sampled.frame) :
               \E r2 \in ClockReads(r1, sampled) :
                 /\ animate(state, activeNotes, track, difficultyConfig, config,
                            recording, isRecording, animationId, pend, out, r1, r2)
                 /\ UNCHANGED <<track, difficultyConfig, judgeConfig, config,
                                pressedKeys, recording, inputs, sampled, probe>>

\* processLaneInput's guards without the test of isPlaying
acceptsWhenStopped(st, cfg, lane) ==
    /\ ~st.isPaused
    /\ lane >= 0
    /\ lane < cfg.laneCount

\* processLaneInput's guards without the upper limit of the lane
acceptsAnyLane(st, cfg, lane) ==
    /\ st.isPlaying
    /\ ~st.isPaused
    /\ lane >= 0

\* processLaneInput's guards: running, not paused, lane in range
accepts(st, cfg, lane) ==
    /\ st.isPlaying
    /\ ~st.isPaused
    /\ lane >= 0
    /\ lane < cfg.laneCount

\* processLaneInput on a note, without note.active = false
hitNoteStaysActive(i, lane, r2) ==
    LET note     == activeNotes[i]
        judgment == judge(judgeConfig, r2, note.time)
        effects  == getEffects(judgment.type)
        st2      == updateScore(state, judgment)
    IN  /\ state' = st2
        /\ recording' = playNoteRecord(recording, isRecording, note.frequency, 3, effects)
        /\ activeNotes' = activeNotes
        /\ clock' = r2
        /\ out' = [out EXCEPT
                     !.cues = Append(@, AudioCue(note.frequency, 3, effects)),
                     !.scoreUpdates = Append(@, <<st2.score, st2.combo>>),
                     !.judgments = Append(@, judgment.message)]

\* processLaneInput(lane) past its guards, on the note activeNotes[i] that
\* findNearestNote returned: judge reads the clock as r2
hitNote(i, lane, r2) ==
    LET note     == activeNotes[i]
        judgment == judge(judgeConfig, r2, note.time)
        effects  == getEffects(judgment.type)
        st2      == updateScore(state, judgment)
    IN  /\ state' = st2
        /\ recording' = playNoteRecord(recording, isRecording, note.frequency, 3, effects)
        /\ activeNotes' = [activeNotes EXCEPT ![i].active = FALSE]
        /\ clock' = r2
        /\ out' = [out EXCEPT
                     !.cues = Append(@, AudioCue(note.frequency, 3, effects)),
                     !.scoreUpdates = Append(@, <<st2.score, st2.combo>>),
                     !.judgments = Append(@, judgment.message)]

\* processLaneInput(lane) past its guards: findNearestNote reads the clock as r1
laneInput(lane, r1) ==
    LET i == findNearestNote(activeNotes, difficultyConfig, lane, r1)
    IN  IF i = 0
        THEN LET st2 == handleMiss(state)
             IN  /\ state' = st2
                 /\ clock' = r1
                 /\ out' = [out EXCEPT
                              !.scoreUpdates = Append(@, <<st2.score, st2.combo>>)]
                 /\ UNCHANGED <<activeNotes, recording>>
        ELSE \E r2 \in ClockReads(r1, sampled) :
               hitNote(i, lane, r2)

\* processLaneInput(lane): everything but pressedKeys, which only the keyboard
\* listeners touch
processLaneInput(lane) ==
    IF ~accepts(state, config, lane)
    THEN /\ out' = out
         /\ UNCHANGED <<state, track, activeNotes, difficultyConfig, judgeConfig,
                        config, animationId, pendingFrames, clock, recording,
                        isRecording, inputs, sampled, probe>>
    ELSE /\ inputs' = inputs + 1
         /\ UNCHANGED <<track, difficultyConfig, judgeConfig, config, animationId,
                        pendingFrames, isRecording, sampled, probe>>
         /\ \E r1 \in FirstRead(clock, sampled.input) :
              laneInput(lane, r1)

\* the host delivers at most MaxInputs lane inputs to a run
InputBudget == inputs < MaxInputs

\* the public processLaneInput(lane), called by the on-screen keyboard (main.ts: onKeyTouch)
KeyTouch(lane) ==
    /\ InputBudget
    /\ processLaneInput(lane)
    /\ UNCHANGED pressedKeys

\* onKeyPress(key), for a key of keyMap
onKeyPress(key) ==
    IF key \notin DOMAIN keyMap
    THEN /\ out' = out
         /\ UNCHANGED <<state, track, activeNotes, difficultyConfig, judgeConfig,
                        config, animationId, pendingFrames, clock, recording,
                        isRecording, inputs, sampled, probe>>
    ELSE processLaneInput(keyMap[key])

\* the keydown listener without the test of pressedKeys
KeyDownNoDebounce(key, modifier) ==
    /\ InputBudget
    /\ IF ~modifier /\ key \in DOMAIN keyMap
       THEN /\ pressedKeys' = pressedKeys \cup {key}
            /\ onKeyPress(key)
       ELSE /\ out' = out
            /\ UNCHANGED <<state, track, activeNotes, difficultyConfig, judgeConfig,
                           config, animationId, pendingFrames, pressedKeys, clock,
                           recording, isRecording, inputs, sampled, probe>>

\* the keydown listener; modifier: e.ctrlKey || e.altKey || e.metaKey
KeyDown(key, modifier) ==
    /\ InputBudget
    /\ IF ~modifier /\ key \in DOMAIN keyMap /\ key \notin pressedKeys
       THEN /\ pressedKeys' = pressedKeys \cup {key}
            /\ onKeyPress(key)
       ELSE /\ out' = out
            /\ UNCHANGED <<state, track, activeNotes, difficultyConfig, judgeConfig,
                           config, animationId, pendingFrames, pressedKeys, clock,
                           recording, isRecording, inputs, sampled, probe>>

\* the keyup listener
KeyUp(key) ==
    /\ pressedKeys' = pressedKeys \ {key}
    /\ out' = out
    /\ UNCHANGED <<state, track, activeNotes, difficultyConfig, judgeConfig, config,
                   animationId, pendingFrames, clock, recording, isRecording,
                   inputs, sampled, probe>>

\* the lane computed from the canvas's left edge, without the offset startX
touchLaneFromCanvasEdge(x, cfg) ==
    LET n  == cfg.laneCount
        W2 == IF MaxLaneWidth * n <= cfg.canvasWidth
              THEN 2 * n * MaxLaneWidth ELSE 2 * cfg.canvasWidth
    IN  (2 * n * x) \div W2

\* handleTouch(clientX, _clientY) with x = clientX - rect.left in pixels.
\* config.laneWidth is min(100, canvasWidth / laneCount) (constructor, start), a
\* fraction for some lane counts, so the comparisons are multiplied through by
\* 2 * laneCount: W2 is 2 * laneCount * laneWidth, S2 is 2 * laneCount * startX.
touchLane(x, cfg) ==
    LET n     == cfg.laneCount
        W2    == IF MaxLaneWidth * n <= cfg.canvasWidth
                 THEN 2 * n * MaxLaneWidth ELSE 2 * cfg.canvasWidth
        total == W2 \div 2
        S2    == n * (cfg.canvasWidth - total)
        X2    == 2 * n * x
    IN  IF X2 < S2 \/ X2 > S2 + 2 * n * total THEN -1
        ELSE (X2 - S2) \div W2

Touch(x) ==
    /\ InputBudget
    /\ UNCHANGED pressedKeys
    /\ IF ~state.isPlaying \/ state.isPaused
       THEN /\ out' = out
            /\ UNCHANGED <<state, track, activeNotes, difficultyConfig, judgeConfig,
                           config, animationId, pendingFrames, clock, recording,
                           isRecording, inputs, sampled, probe>>
       ELSE LET lane == touchLane(x, config)
            IN  IF lane >= 0 /\ lane < config.laneCount
                THEN processLaneInput(lane)
                ELSE /\ out' = out
                     /\ UNCHANGED <<state, track, activeNotes, difficultyConfig,
                                    judgeConfig, config, animationId, pendingFrames,
                                    clock, recording, isRecording, inputs, sampled, probe>>

\* dispose() that forgets the handle without cancelling the callback
DisposeNoCancel ==
    /\ HostDue
    /\ animationId' = NoHandle
    /\ pendingFrames' = pendingFrames
    /\ out' = out
    /\ UNCHANGED <<state, track, activeNotes, difficultyConfig, judgeConfig, config,
                   pressedKeys, clock, recording, isRecording, inputs, sampled, probe>>

\* dispose()
Dispose ==
    /\ HostDue
    /\ IF animationId # NoHandle
       THEN /\ pendingFrames' = pendingFrames \ {animationId}
            /\ animationId' = NoHandle
       ELSE UNCHANGED <<pendingFrames, animationId>>
    /\ out' = out
    /\ UNCHANGED <<state, track, activeNotes, difficultyConfig, judgeConfig, config,
                   pressedKeys, clock, recording, isRecording, inputs, sampled, probe>>

---------------------------------------------------------------------------
(* The engine after construction, and its behaviours *)

InitEngine ==
    /\ state = createInitialState
    /\ track = NoTrack
    /\ activeNotes = <<>>
    /\ difficultyConfig = "normal"
    /\ judgeConfig = "normal"
    /\ config = [canvasWidth |-> CanvasWidth, laneCount |-> 5,
                 judgeLineY |-> JudgeLineY, noteHeight |-> NoteHeight]
    /\ animationId = NoHandle
    /\ pendingFrames = {}
    /\ pressedKeys = {}
    /\ clock = 0
    /\ recording = <<>>
    /\ isRecording = FALSE
    /\ out = Silent
    /\ inputs = 0
    /\ sampled = NoSamples

Init ==
    /\ InitEngine
    /\ probe = <<>>

Next ==
    \/ \E d \in Difficulty : Start(d)
    \/ Frame
    \/ \E lane \in LaneInputs : KeyTouch(lane)
    \/ \E key \in Keys, modifier \in BOOLEAN : KeyDown(key, modifier)
    \/ \E key \in Keys : KeyUp(key)
    \/ \E x \in PointerXs : Touch(x)
    \/ Dispose

Spec == Init /\ [][Next]_vars

---------------------------------------------------------------------------
(* The engine played from the keyboard alone *)

\* keys the keyboard sends in SpecKeys: two mapped keys (lanes 0 and 1, where
\* the notes of the model's tracks are) and an unmapped one
KeyboardKeys == {"a", "s", "q"}

NextKeys ==
    \/ \E d \in Difficulty : Start(d)
    \/ Frame
    \/ \E key \in KeyboardKeys, modifier \in BOOLEAN : KeyDown(key, modifier)
    \/ \E key \in KeyboardKeys : KeyUp(key)

SpecKeys == Init /\ [][NextKeys]_vars

---------------------------------------------------------------------------
(* A run left to itself: start() only when no run is playing, no dispose(),  *)
(* the host delivering frame callbacks while the clock advances              *)

\* start(difficulty) called when no run is playing
StartIdle(difficulty) ==
    /\ ~state.isPlaying
    /\ Start(difficulty)

\* a frame callback that reads the clock later than the last reading
FrameLater == Frame /\ clock' > clock

NextLive ==
    \/ \E d \in Difficulty : StartIdle(d)
    \/ Frame
    \/ \E lane \in LaneInputs : KeyTouch(lane)

\* requestAnimationFrame calls back every callback it was asked for (line 388),
\* and Date.now() grows: a frame at a later reading is not put off forever
SpecLive == Init /\ [][NextLive]_vars /\ WF_vars(FrameLater)

---------------------------------------------------------------------------
(* NoteJudge on its own: judge under every tier's thresholds *)

\* target times (ticks) judge is called with: a whole millisecond, and the
\* quarter-millisecond value a rapid burst produces (2000 + 93.75 ms)
JudgeTargets == {Ms(LeadIn), Ms(LeadIn) + 375}

\* signed differences playerTime - targetTime (ticks) judge is called with under
\* tier cfg: zero, each edge of the tier's windows and one tick past it, on
\* both sides, and the four deltas of the Normal scenario
JudgeDeltas(cfg) ==
    LET w     == DIFFICULTY_SETTINGS[cfg].judgmentWindow
        edges == {Ms(w.perfect), Ms(w.good), Ms(w.bad)}
        after == edges \cup {e + 1 : e \in edges}
                   \cup {Ms(50), Ms(150), Ms(250), Ms(400)}
    IN  {0} \cup after \cup {-d : d \in after}

\* the call judge(playerTime, targetTime), what it returned, and the cue
\* bundle getEffects(judgment.type) gives for it, as processLaneInput asks
JudgeRecord(cfg, playerTime, targetTime) ==
    LET judgment == judge(cfg, playerTime, targetTime)
    IN  [cfg |-> cfg, playerTime |-> playerTime, targetTime |-> targetTime,
         result |-> judgment, effects |-> getEffects(judgment.type)]

\* NoteJudge.updateConfig(DIFFICULTY_SETTINGS[d]); probe starts afresh
UpdateConfig(d) ==
    /\ judgeConfig' = d
    /\ probe' = <<>>
    /\ UNCHANGED <<state, track, activeNotes, difficultyConfig, config, animationId,
                   pendingFrames, pressedKeys, clock, recording, isRecording, out,
                   inputs, sampled>>

\* NoteJudge.judge(playerTime, targetTime); probe keeps the last two calls
\* since the last updateConfig
JudgeCall(playerTime, targetTime) ==
    /\ probe' = IF probe = <<>>
                THEN <<JudgeRecord(judgeConfig, playerTime, targetTime)>>
                ELSE <<probe[Len(probe)], JudgeRecord(judgeConfig, playerTime, targetTime)>>
    /\ UNCHANGED engineVars

NextJudge ==
    \/ \E d \in Difficulty : UpdateConfig(d)
    \/ \E targetTime \in JudgeTargets :
         \E delta \in JudgeDeltas(judgeConfig) :
           JudgeCall(targetTime + delta, targetTime)

SpecJudge == Init /\ [][NextJudge]_vars

---------------------------------------------------------------------------
(* TrackGenerator on its own: the loop of generateTrack, one step at a time, *)
(* for the whole noteCount of each tier and every lane Math.random() gives   *)

\* a profile whose k-th available key is a name NOTES does not hold
CorruptProfile(d, k) ==
    [DIFFICULTY_SETTINGS[d] EXCEPT !.availableKeys[k] = "H"]

\* the calls generateTrack(difficulty, config) of the model: the four
\* configured profiles, as start() passes them, and the Easy profile with one
\* of its three keys corrupted
TrackInputs ==
    {[difficulty |-> d, config |-> DIFFICULTY_SETTINGS[d]] : d \in Difficulty}
      \cup {[difficulty |-> "easy", config |-> CorruptProfile("easy", k)] : k \in 1 .. 3}

\* generateTrack(d, cfg) about to enter its loop: the loop index i, the cursor
\* currentTime, the notes pushed by the last step, the time of the last note
\* pushed before that step (0 when there is none), the number of chord steps
\* taken, and how the call ended
TrackCall(d, cfg) ==
    [difficulty |-> d, config |-> cfg, i |-> 0, currentTime |-> Ms(LeadIn),
     lastTime |-> 0, pushed |-> <<>>, chords |-> 0,
     returned |-> FALSE, thrown |-> FALSE, duration |-> 0]

\* createNote throws on one of the notes q of a step: noteToFrequency finds no
\* base frequency for its name
Throws(q) == \E k \in DOMAIN q : q[k].noteName \notin DOMAIN NOTES

\* one turn of the loop of generateTrack; the Error of noteToFrequency leaves
\* generateTrack uncaught, so no track is returned
TrackStep ==
    LET d   == probe.difficulty
        cfg == probe.config
    IN  /\ ~probe.returned
        /\ ~probe.thrown
        /\ probe.i < cfg.noteCount
        /\ \E q \in StepNotes(d, cfg, probe.i, probe.currentTime) :
             probe' = IF Throws(q)
                      THEN [probe EXCEPT !.thrown = TRUE]
                      ELSE [probe EXCEPT
                              !.i = @ + 1,
                              !.currentTime = StepNext(d, cfg, probe.i, probe.currentTime),
                              !.lastTime = IF probe.pushed = <<>> THEN 0
                                           ELSE probe.pushed[Len(probe.pushed)].time,
                              !.pushed = q,
                              !.chords = IF getPattern(d, probe.i).type = "chord"
                                         THEN @ + 1 ELSE @]
        /\ UNCHANGED engineVars

\* generateTrack returning a duration without the trailing margin
TrackReturnNoMargin ==
    /\ ~probe.returned
    /\ ~probe.thrown
    /\ probe.i >= probe.config.noteCount
    /\ probe' = [probe EXCEPT !.returned = TRUE, !.duration = probe.currentTime]
    /\ UNCHANGED engineVars

\* the loop is over: generateTrack returns the track
TrackReturn ==
    /\ ~probe.returned
    /\ ~probe.thrown
    /\ probe.i >= probe.config.noteCount
    /\ probe' = [probe EXCEPT !.returned = TRUE,
                              !.duration = probe.currentTime + Ms(TrailingMargin)]
    /\ UNCHANGED engineVars

InitTrack ==
    /\ InitEngine
    /\ probe \in {TrackCall(c.difficulty, c.config) : c \in TrackInputs}

NextTrack ==
    \/ TrackStep
    \/ TrackReturn

SpecTrack == InitTrack /\ [][NextTrack]_vars

---------------------------------------------------------------------------
(* Pointer routing on its own: handleTouch over the lane geometry start()   *)
(* lays out for each tier on canvases of several widths                     *)

\* canvas widths resizeCanvas takes from the container (px): a phone, the
\* constructor's default, a desktop window
CanvasWidths == {320, 800, 1000}

\* handleTouch returned without calling processLaneInput
NoLane == -1

\* the lane handleTouch hands to processLaneInput for a pointer at canvas
\* coordinate x, NoLane when it returns without the call
handleTouchLane(x, cfg) ==
    LET lane == touchLane(x, cfg)
    IN  IF lane >= 0 /\ lane < cfg.laneCount THEN lane ELSE NoLane

\* the geometry after start(d) on a canvas canvasWidth wide, no pointer yet
TouchGeometry(canvasWidth, d) ==
    [config |-> [canvasWidth |-> canvasWidth,
                 laneCount |-> Len(DIFFICULTY_SETTINGS[d].availableKeys)],
     called |-> FALSE, x |-> 0, lane |-> NoLane]

\* a click or touchstart at canvas coordinate x while a run is playing
TouchCall(x) ==
    /\ probe' = [probe EXCEPT !.called = TRUE, !.x = x,
                              !.lane = handleTouchLane(x, probe.config)]
    /\ UNCHANGED engineVars

InitTouch ==
    /\ InitEngine
    /\ probe \in {TouchGeometry(w, d) : w \in CanvasWidths, d \in Difficulty}

NextTouch == \E x \in 0 .. probe.config.canvasWidth : TouchCall(x)

SpecTouch == InitTouch /\ [][NextTouch]_vars

---------------------------------------------------------------------------
(* The position of a note on its own: the position update() gives one active *)
(* note frame after frame, for each tier's speed                             *)

\* times (ticks) of the note followed: one later than every tier's fall time,
\* and the quarter-millisecond time of a rapid burst
PositionTimes == {Ms(5000), Ms(LeadIn) + 375}

\* the time (ms) between two frame callbacks: the same millisecond, a frame of
\* a 60 Hz display rounded down and up
FrameGaps == {0, 16, 17}

\* the last clock reading (ms) a frame of this walk is run at
MaxElapsed == 7000

\* the walk before its first frame: a run of tier d just started with a note
\* at time t, not yet positioned (generateTrack creates it at the top, y = 0)
PositionWalk(d, t) ==
    [difficulty |-> d, note |-> [time |-> t], frames |-> 0,
     currentTime |-> 0, before |-> 0, y |-> 0]

\* update() at a clock reading gap ms after the last one
PositionFrame(gap) ==
    LET currentTime == probe.currentTime + Ms(gap)
    IN  /\ currentTime <= Ms(MaxElapsed)
        /\ probe' = [probe EXCEPT
                       !.frames = IF @ < 2 THEN @ + 1 ELSE @,
                       !.currentTime = currentTime,
                       !.before = IF probe.frames = 0
                                  THEN notePosition(probe.note, probe.difficulty,
                                                    config, currentTime)
                                  ELSE probe.y,
                       !.y = notePosition(probe.note, probe.difficulty, config,
                                          currentTime)]
        /\ UNCHANGED engineVars

InitPosition ==
    /\ InitEngine
    /\ probe \in {PositionWalk(d, t) : d \in Difficulty, t \in PositionTimes}

NextPosition == \E gap \in FrameGaps : PositionFrame(gap)

SpecPosition == InitPosition /\ [][NextPosition]_vars

---------------------------------------------------------------------------
(* getChord on its own: its while loop, one call of randomLane at a time     *)

\* lane counts (availableKeys.length) getChord is called with: one lane, two,
\* and the four tiers' counts
ChordLaneCounts == {1, 2, 3, 5, 7, 12}

\* the lanes randomLane gives for at most twelve keys
ChordLanes == 0 .. 11

\* counts getChord is called with: none, the two and three of getPattern, and
\* four
ChordCounts == 0 .. 4

\* the first n key names of the chromatic profile
LaneKeys(n) == SubSeq(DIFFICULTY_SETTINGS["expert"].availableKeys, 1, n)

\* getChord(availableKeys, count) about to enter its loop: lanes = []
ChordCall(availableKeys, count) ==
    [availableKeys |-> availableKeys, count |-> count, lanes |-> <<>>,
     returned |-> FALSE, result |-> <<>>]

\* the loop condition lanes.length < Math.min(count, maxLane)
ChordLooping ==
    Len(probe.lanes) < Min(probe.count, Len(probe.availableKeys))

\* one turn of the loop in which randomLane gives lane: pushed unless lanes
\* includes it already
ChordDraw(lane) ==
    /\ ~probe.returned
    /\ ChordLooping
    /\ lane \in randomLane(probe.availableKeys)
    /\ probe' = IF \E k \in DOMAIN probe.lanes : probe.lanes[k] = lane
                THEN probe
                ELSE [probe EXCEPT !.lanes = Append(@, lane)]
    /\ UNCHANGED engineVars

\* the loop is over and getChord returns lanes in the order they were drawn
ChordReturnUnsorted ==
    /\ ~probe.returned
    /\ ~ChordLooping
    /\ probe' = [probe EXCEPT !.returned = TRUE, !.result = probe.lanes]
    /\ UNCHANGED engineVars

\* the loop is over: return lanes.sort((a, b) => a - b)
ChordReturn ==
    /\ ~probe.returned
    /\ ~ChordLooping
    /\ probe' = [probe EXCEPT
                   !.returned = TRUE,
                   !.result = SortedSeq({probe.lanes[k] : k \in DOMAIN probe.lanes})]
    /\ UNCHANGED engineVars

InitChord ==
    /\ InitEngine
    /\ probe \in {ChordCall(LaneKeys(n), count) :
                     n \in ChordLaneCounts, count \in ChordCounts}

NextChord ==
    \/ \E lane \in ChordLanes : ChordDraw(lane)
    \/ ChordReturn

\* Math.random() is not fixed on the lanes already drawn: a lane the loop still
\* lacks is drawn at some turn; the code after the loop runs
SpecChord ==
    /\ InitChord
    /\ [][NextChord]_vars
    /\ \A lane \in ChordLanes : WF_vars(ChordDraw(lane))
    /\ WF_vars(ChordReturn)

---------------------------------------------------------------------------
(* Claims about NoteJudge *)

\* the category the thresholds of tier cfg give the absolute difference diff
WindowOf(cfg, diff) ==
    LET w == DIFFICULTY_SETTINGS[cfg].judgmentWindow
    IN  CASE diff <= Ms(w.perfect)                       -> "perfect"
          [] Ms(w.perfect) < diff /\ diff <= Ms(w.good)  -> "good"
          [] Ms(w.good) < diff /\ diff <= Ms(w.bad)      -> "bad"
          [] diff > Ms(w.bad)                            -> "miss"

\* C3: judge returns exactly one of perfect, good, bad, miss: perfect iff
\* delta <= perfect window, good iff perfect < delta <= good window, bad iff
\* good < delta <= bad window, miss iff delta > bad window (every edge
\* inclusive), under the thresholds given by the most recent updateConfig, or
\* the constructor's if there was none.
C3_JudgeWindows ==
    [][(probe' # probe /\ probe' # <<>>) =>
          LET e == probe'[Len(probe')]
          IN  /\ e.cfg = judgeConfig
              /\ e.result.type \in JudgmentType
              /\ e.result.type = WindowOf(judgeConfig, Abs(e.playerTime - e.targetTime))]_vars

\* a call exactly on the good edge of Hard, after updateConfig replaced the
\* constructor's Normal thresholds, returned good
C3_Witness ==
    \E i \in DOMAIN probe :
        /\ probe[i].cfg = "hard"
        /\ Abs(probe[i].playerTime - probe[i].targetTime) = Ms(150)
        /\ probe[i].result.type = "good"

\* C4: each category has fixed attributes: perfect 100 points and the combo
\* continues, good 50 and continues, bad 10 and breaks, miss 0 and breaks; the
\* judgment's timing is |playerTime - targetTime|.
C4_JudgmentAttributes ==
    \A i \in DOMAIN probe :
        LET r == probe[i].result
        IN  /\ r.timing = Abs(probe[i].playerTime - probe[i].targetTime)
            /\ r.type = "perfect" => r.score = 100 /\ r.combo
            /\ r.type = "good"    => r.score = 50 /\ r.combo
            /\ r.type = "bad"     => r.score = 10 /\ ~r.combo
            /\ r.type = "miss"    => r.score = 0 /\ ~r.combo

\* judge returned each of the four categories' attributes: a bad and a miss
\* are in probe, after a perfect or a good
C4_Witness ==
    /\ Len(probe) = 2
    /\ probe[1].result.type = "bad"
    /\ probe[1].result.score = 10
    /\ probe[2].result.type = "good"
    /\ probe[2].result.score = 50
    /\ probe[2].playerTime < probe[2].targetTime

\* the rank of a category: 0 for the best
RankOf(type) ==
    CASE type = "perfect" -> 0 [] type = "good" -> 1 [] type = "bad" -> 2 [] type = "miss" -> 3

\* C6: classification is monotonic in the delta: under the same thresholds a
\* larger absolute delta never gets a better category nor a higher score.
C6_Monotonic ==
    \A i, j \in DOMAIN probe :
        LET a == probe[i]
            b == probe[j]
        IN  (/\ a.cfg = b.cfg
             /\ Abs(a.playerTime - a.targetTime) <= Abs(b.playerTime - b.targetTime))
            => /\ RankOf(a.result.type) <= RankOf(b.result.type)
               /\ a.result.score >= b.result.score

\* two calls under the same thresholds, an early one with the larger delta
\* and the worse category
C6_Witness ==
    /\ Len(probe) = 2
    /\ probe[1].cfg = probe[2].cfg
    /\ probe[1].playerTime < probe[1].targetTime
    /\ Abs(probe[1].playerTime - probe[1].targetTime)
         > Abs(probe[2].playerTime - probe[2].targetTime)
    /\ RankOf(probe[1].result.type) > RankOf(probe[2].result.type)

---------------------------------------------------------------------------
(* Claims about a run of the engine *)

\* a step within one run: every step but a start() that takes back the clock,
\* the inputs or the emissions of the run it ends, replaces the track or
\* restarts a stopped engine
SameRun ==
    /\ track' = track
    /\ clock' >= clock
    /\ inputs' >= inputs
    /\ Len(out'.scoreUpdates) >= Len(out.scoreUpdates)
    /\ state'.isPlaying => state.isPlaying

\* the lanes of the widest tier
Lanes == 0 .. 11

\* a step of processLaneInput(lane) past its guards
LaneStep(lane) ==
    /\ inputs' = inputs + 1
    /\ lane < config.laneCount
    /\ processLaneInput(lane)

\* the notes the step deactivates
Flipped ==
    {i \in DOMAIN activeNotes :
        /\ activeNotes[i].active
        /\ i \in DOMAIN activeNotes'
        /\ ~activeNotes'[i].active}

\* how many judgments the run state has counted
Judged(st) == st.perfectCount + st.goodCount + st.badCount + st.missCount

\* the number of no-target misses of the step: lane inputs accepted without an
\* audio cue
NoTarget == (inputs' - inputs) - (Len(out'.cues) - Len(out.cues))

\* C1: within one run each note is resolved at most once: a note whose active
\* flag is false stays as it is in every step of the run, and every judgment a
\* step counts is the resolution of a note that was active before the step or
\* the no-target miss of its lane input: a resolved note is never selected,
\* scored or swept again.
C1_ResolvedOnce ==
    [][SameRun =>
          /\ \A i \in DOMAIN activeNotes :
                ~activeNotes[i].active =>
                    i \in DOMAIN activeNotes' /\ activeNotes'[i] = activeNotes[i]
          /\ Judged(state') - Judged(state) = Cardinality(Flipped) + NoTarget]_vars

\* one note was hit and a second lane input, accepted while the clock was
\* still within the bad window of that note, found no target
C1_Witness ==
    /\ state.isPlaying
    /\ inputs = 2
    /\ Len(out.cues) = 1
    /\ state.missCount = 1
    /\ \E i \in DOMAIN activeNotes :
          /\ ~activeNotes[i].active
          /\ Abs(clock - activeNotes[i].time)
                <= Ms(DIFFICULTY_SETTINGS[difficultyConfig].judgmentWindow.bad)
          /\ \A j \in DOMAIN activeNotes : j # i => activeNotes[j].active

\* the active notes of the lane within the bad window of the reading t
Eligible(notes, dcfg, lane, t) ==
    {i \in DOMAIN notes :
        /\ notes[i].lane = lane
        /\ notes[i].active
        /\ Abs(notes[i].time - t) <= Ms(DIFFICULTY_SETTINGS[dcfg].judgmentWindow.bad)}

\* the eligible notes with the smallest absolute delta, and of those the
\* earliest in generation order; empty when no note is eligible
Selected(notes, dcfg, lane, t) ==
    LET E == Eligible(notes, dcfg, lane, t)
    IN  {i \in E : \A j \in E :
            \/ Abs(notes[i].time - t) < Abs(notes[j].time - t)
            \/ Abs(notes[i].time - t) = Abs(notes[j].time - t) /\ i <= j}

\* the readings of the clock a lane input of the step can have selected at
SelectionReads ==
    {t \in FirstRead(clock, sampled.input) : t <= clock' /\ clock' <= t + Ms(MaxSkew)}

\* C2: the note a lane input on lane L at elapsed time t resolves is the active
\* note of lane L within the bad window of t with the smallest absolute delta,
\* the earliest in generation order of those equally near; when there is no such
\* note none is resolved (inactive notes, notes of other lanes, notes outside
\* the bad window are never selected).
C2_NearestSelected ==
    [][\A lane \in Lanes :
          LaneStep(lane) =>
              \E t \in SelectionReads :
                  Flipped = Selected(activeNotes, difficultyConfig, lane, t)]_vars

\* a Normal run with both notes in one lane: the input came midway between
\* them, 250 ms from each, and the earlier note was taken
C2_Witness ==
    /\ difficultyConfig = "normal"
    /\ Len(activeNotes) = 2
    /\ activeNotes[1].lane = activeNotes[2].lane
    /\ ~activeNotes[1].active
    /\ activeNotes[2].active
    /\ clock = activeNotes[1].time + Ms(250)
    /\ clock = activeNotes[2].time - Ms(250)
    /\ inputs = 1
    /\ state.badCount = 1

\* C5: a perfect or good judgment increases combo by exactly 1 and sets
\* maxCombo to the larger of the previous maxCombo and the new combo; a bad or
\* miss judgment (no-target and sweep misses included) sets combo to 0 and
\* leaves maxCombo unchanged; maxCombo >= combo in every state, and maxCombo
\* never decreases within a run.
C5_ComboRules ==
    [][/\ state'.maxCombo >= state'.combo
       /\ SameRun =>
            /\ state'.maxCombo >= state.maxCombo
            /\ (\/ state'.perfectCount = state.perfectCount + 1
                \/ state'.goodCount = state.goodCount + 1)
               => /\ state'.combo = state.combo + 1
                  /\ state'.maxCombo = Max(state.maxCombo, state'.combo)
            /\ (\/ state'.badCount = state.badCount + 1
                \/ state'.missCount > state.missCount)
               => /\ state'.combo = 0
                  /\ state'.maxCombo = state.maxCombo]_vars

\* a combo was broken by a miss: maxCombo keeps it
C5_Witness ==
    /\ state.maxCombo = 1
    /\ state.combo = 0
    /\ state.missCount = 1
    /\ state.perfectCount + state.goodCount = 1

\* the active notes of a lane
ActiveIn(lane) ==
    {i \in DOMAIN activeNotes : activeNotes[i].lane = lane /\ activeNotes[i].active}

\* what the Normal scenario expects of a lane input that left the clock delta
\* ticks from the time of note i, the only active note of its lane
ScenarioOutcome(i, delta) ==
    /\ delta = Ms(50) =>
         /\ state'.perfectCount = state.perfectCount + 1
         /\ state'.score = state.score + 100
         /\ state'.combo = state.combo + 1
         /\ ~activeNotes'[i].active
    /\ delta = Ms(150) =>
         /\ state'.goodCount = state.goodCount + 1
         /\ state'.score = state.score + 50
         /\ state'.combo = state.combo + 1
         /\ ~activeNotes'[i].active
    /\ delta = Ms(250) =>
         /\ state'.badCount = state.badCount + 1
         /\ state'.score = state.score + 10
         /\ state'.combo = 0
         /\ ~activeNotes'[i].active
    /\ delta = Ms(400) =>
         /\ state'.missCount = state.missCount + 1
         /\ state'.score = state.score
         /\ state'.combo = 0
         /\ activeNotes' = activeNotes

NoneBehind(notes, c) ==
    \A i \in DOMAIN notes : notes[i].active => notes[i].time + Ms(MaxSkew) >= c

\* every resolved note was judged perfect, and nothing else was counted
AllPerfect(notes, st) ==
    /\ st.perfectCount = Cardinality({i \in DOMAIN notes : ~notes[i].active})
    /\ st.goodCount = 0
    /\ st.badCount = 0
    /\ st.missCount = 0

\* a lane input on the lane of an active note at that note's time
ScriptInput ==
    \E i \in DOMAIN activeNotes :
        /\ activeNotes[i].active
        /\ activeNotes[i].time <= clock'
        /\ clock' <= activeNotes[i].time + Ms(MaxSkew)
        /\ LaneStep(activeNotes[i].lane)

\* C8: round trip: on every generated track, when each note gets a lane input
\* on its lane at exactly its time (inputs in time order, frames in between at
\* will) and there is no other input, every note is judged perfect: a run
\* starts with nothing counted, every such step keeps the resolved notes all
\* perfect, and at the end perfectCount is the number of notes and goodCount,
\* badCount and missCount are 0.
C8_RoundTrip ==
    [][/\ (inputs' = 0 /\ out'.scoreUpdates = <<>>) => AllPerfect(activeNotes', state')
       /\ (/\ SameRun
           /\ NoneBehind(activeNotes, clock)
           /\ AllPerfect(activeNotes, state)
           /\ inputs' = inputs \/ ScriptInput
           /\ NoneBehind(activeNotes, clock'))
          => /\ AllPerfect(activeNotes', state')
             /\ ~state'.isPlaying =>
                  /\ state'.perfectCount = Len(activeNotes')
                  /\ state'.goodCount + state'.badCount + state'.missCount = 0]_vars

\* a run that ended with both notes judged perfect, each hit after a frame
\* had drawn it on the judgment line
C8_Witness ==
    /\ ~state.isPlaying
    /\ out.gameEnd # <<>>
    /\ Len(activeNotes) = 2
    /\ state.perfectCount = 2
    /\ inputs = 2
    /\ \A i \in DOMAIN activeNotes : activeNotes[i].y = Px(config.judgeLineY)

\* a lane input event of the host: on-screen key, pointer or keyboard
LaneEvent ==
    \/ \E lane \in LaneInputs : KeyTouch(lane)
    \/ \E x \in PointerXs : Touch(x)
    \/ \E key \in Keys, modifier \in BOOLEAN : KeyDown(key, modifier)

\* C9: a lane input (key, pointer or on-screen key) that arrives while the
\* engine is not running (before the first start, after the run has ended) or
\* is paused is rejected: the run state, the notes, the emissions (audio cues,
\* callbacks), the recording and the scheduled frame callbacks stay as they
\* are, so nothing is queued for later.
C9_RejectedWhenStopped ==
    [][((~state.isPlaying \/ state.isPaused) /\ LaneEvent) =>
          UNCHANGED <<state, activeNotes, out, recording, isRecording, track, clock,
                      inputs, animationId, pendingFrames, difficultyConfig,
                      judgeConfig, config>>]_vars

\* a mapped key was pressed before the first start: the engine is as constructed
C9_Witness ==
    /\ track = NoTrack
    /\ "b" \in pressedKeys
    /\ state = createInitialState
    /\ out = Silent
    /\ activeNotes = <<>>

\* a lane input event of the host whose lane is outside [0, laneCount)
OutOfRangeEvent ==
    \/ \E lane \in LaneInputs :
         /\ lane < 0 \/ lane >= config.laneCount
         /\ KeyTouch(lane)
    \/ \E x \in PointerXs :
         /\ touchLane(x, config) < 0 \/ touchLane(x, config) >= config.laneCount
         /\ Touch(x)
    \/ \E key \in Keys :
         /\ key \in DOMAIN keyMap
         /\ keyMap[key] >= config.laneCount
         /\ KeyDown(key, FALSE)

\* C10: during a run, a lane input whose lane is outside [0, laneCount) of the
\* tier, the supplementary keys (lanes 9..11) on a tier with fewer lanes
\* included, is dropped: score, combo, counters and notes stay as they are, no
\* miss is counted, no audio cue and no callback is emitted.
C10_DroppedOutOfRange ==
    [][(state.isPlaying /\ ~state.isPaused /\ OutOfRangeEvent) =>
          UNCHANGED <<state, activeNotes, out, recording, clock, inputs>>]_vars

\* the supplementary key b (lane 9) is down in a run with fewer than ten
\* lanes in which nothing has been counted or emitted
C10_Witness ==
    /\ state.isPlaying
    /\ config.laneCount <= keyMap["b"]
    /\ "b" \in pressedKeys
    /\ clock > 0
    /\ inputs = 0
    /\ Judged(state) = 0
    /\ out = Silent


---------------------------------------------------------------------------
(* Claims about the frame cycle and the life of a run *)

\* C11: a run ends (isPlaying true -> false) only in a step whose clock reading
\* is strictly greater than track.duration; that step leaves no frame callback
\* scheduled, stops the recording and hands onGameEnd, once, the final state
\* and the recording; onGameEnd is invoked in no other step, so at most once
\* per run.
C11_EndsPastDuration ==
    [][/\ (state.isPlaying /\ ~state'.isPlaying) =>
             /\ track' = track
             /\ clock' > track.duration
             /\ pendingFrames' = {}
             /\ animationId' = animationId
             /\ isRecording' = FALSE
             /\ recording' = recording
             /\ out.gameEnd = <<>>
             /\ out'.gameEnd = <<[state |-> state', recording |-> recording]>>
       /\ (out'.gameEnd # out.gameEnd /\ out'.gameEnd # <<>>) =>
             (state.isPlaying /\ ~state'.isPlaying)
       /\ (state'.isPlaying /\ SameRun) => out'.gameEnd = <<>>]_vars

\* a run that ended: one onGameEnd call, the clock past the duration
C11_Witness ==
    /\ track # NoTrack
    /\ ~state.isPlaying
    /\ Len(out.gameEnd) = 1
    /\ clock > track.duration
    /\ pendingFrames = {}
    /\ ~isRecording

\* the engine as dispose() leaves it during a run: no handle, nothing pending
Disposed ==
    /\ state.isPlaying
    /\ animationId = NoHandle
    /\ pendingFrames = {}

\* the frame step (animate, lines 372-389) invoked at clock reading now would
\* change the run state, a note or emit a score update
FrameStepMutates(now) ==
    /\ state.isPlaying
    /\ update(activeNotes, state, difficultyConfig, config, now) #
           [notes |-> activeNotes, state |-> state, scoreUpdates |-> <<>>]

\* the frame step invoked at clock reading now would reach requestAnimationFrame
FrameStepSchedules(now) ==
    /\ state.isPlaying
    /\ ~checkGameEnd(track, now)

\* C12: after dispose(), the frame step invoked at any later clock reading
\* mutates nothing (no note position or active flag, no counter, no combo, no
\* elapsed time) and schedules no further frame callback.
C12_DisposedStepInert ==
    Disposed =>
        \A now \in FirstRead(clock, sampled.frame) :
            /\ ~FrameStepMutates(now)
            /\ ~FrameStepSchedules(now)

\* C13: cancellation is complete and idempotent: in every reachable state at
\* most one frame callback is pending and it is the one the engine holds the
\* handle of (so none of a cancelled cycle is left to run after a re-entrant
\* start()); dispose() leaves nothing pending and no handle; and dispose() in a
\* state without a handle changes nothing.
C13_CancellationComplete ==
    /\ [](Cardinality(pendingFrames) <= 1 /\ pendingFrames \subseteq {animationId})
    /\ [][Dispose => (pendingFrames' = {} /\ animationId' = NoHandle)]_vars
    /\ [](animationId = NoHandle => ~ENABLED <<Dispose>>_vars)

\* a run whose frame cycle dispose() cancelled after frames had run
C13_Witness ==
    /\ Disposed
    /\ clock > 0
    /\ track # NoTrack

\* the notes of activeNotes as generateTrack created them (y as created)
AsGenerated(notes) == [i \in DOMAIN notes |-> [notes[i] EXCEPT !.y = 0]]

---------------------------------------------------------------------------
(* Claims about misses *)

\* score, maxCombo and the three hit counters are as before the step
HitTotalsKept ==
    /\ state'.score = state.score
    /\ state'.maxCombo = state.maxCombo
    /\ state'.perfectCount = state.perfectCount
    /\ state'.goodCount = state.goodCount
    /\ state'.badCount = state.badCount

\* the notes active before the step that the step left more than the slack
\* below the judgment line
PastSlack ==
    {i \in DOMAIN activeNotes :
        /\ activeNotes[i].active
        /\ i \in DOMAIN activeNotes'
        /\ activeNotes'[i].y > Px(config.judgeLineY) + Px(MissSlack)}

\* C15: in a step of a run that accepts no lane input (a frame step is the
\* only such step that moves notes), the notes deactivated are exactly the
\* active notes whose position exceeds the judgment line by more than 200 px;
\* missCount grows by their number, the combo is 0 if there is one, score,
\* maxCombo and the perfect/good/bad counters are unchanged, no audio cue is
\* played or recorded and no judgment is displayed.
C15_FrameSweep ==
    [][(SameRun /\ state.isPlaying /\ inputs' = inputs) =>
          /\ Flipped = PastSlack
          /\ state'.missCount = state.missCount + Cardinality(PastSlack)
          /\ state'.combo = IF PastSlack = {} THEN state.combo ELSE 0
          /\ HitTotalsKept
          /\ out'.cues = out.cues
          /\ out'.judgments = out.judgments
          /\ recording' = recording
          /\ Len(out'.scoreUpdates) = Len(out.scoreUpdates) + Cardinality(PastSlack)]_vars

\* one note hit, then the other swept by a frame: the combo of 1 is lost
C15_Witness ==
    /\ state.isPlaying
    /\ inputs = 1
    /\ state.perfectCount = 1
    /\ state.maxCombo = 1
    /\ state.missCount = 1
    /\ state.combo = 0
    /\ Len(out.cues) = 1
    /\ Len(activeNotes) = 2
    /\ \A i \in DOMAIN activeNotes :
          /\ ~activeNotes[i].active
          /\ activeNotes[i].time < state.currentTime

\* C16: an accepted lane input that finds no eligible note (none at any clock
\* reading findNearestNote can have taken in the step) raises missCount by 1,
\* sets the combo to 0, leaves score, maxCombo, the perfect/good/bad counters
\* and every note's active flag unchanged, and plays and records no audio cue.
C16_NoTargetMiss ==
    [][\A lane \in Lanes :
         (/\ LaneStep(lane)
          /\ \A t \in SelectionReads : Eligible(activeNotes, difficultyConfig, lane, t) = {}) =>
            /\ state'.missCount = state.missCount + 1
            /\ state'.combo = 0
            /\ HitTotalsKept
            /\ Flipped = {}
            /\ \A i \in DOMAIN activeNotes : activeNotes'[i].active = activeNotes[i].active
            /\ out'.cues = out.cues
            /\ out'.judgments = out.judgments
            /\ recording' = recording
            /\ out'.scoreUpdates = Append(out.scoreUpdates, <<state'.score, 0>>)]_vars

\* a hit followed by an input that found no note: the combo of 1 is lost while
\* the other note is still active
C16_Witness ==
    /\ state.isPlaying
    /\ inputs = 2
    /\ state.perfectCount = 1
    /\ state.maxCombo = 1
    /\ state.missCount = 1
    /\ state.combo = 0
    /\ Len(out.cues) = 1
    /\ \E i \in DOMAIN activeNotes : activeNotes[i].active

---------------------------------------------------------------------------
(* Claims about the run state machine *)

\* the states of a run, read off GameState and GameEngine.track
Idle == ~state.isPlaying /\ track = NoTrack

Running == state.isPlaying /\ ~state.isPaused

Paused == state.isPlaying /\ state.isPaused

Ended == ~state.isPlaying /\ track # NoTrack

\* C17: the run state machine is idle -> running -> (running <-> paused) ->
\* ended: a running engine has a transition to paused and a paused one a
\* transition back to running, running -> ended happens only with the clock
\* past track.duration, and only start() takes the engine from idle or ended
\* to running.
C17_RunStateMachine ==
    /\ [](Running => ENABLED (Next /\ Paused'))
    /\ [](Paused => ENABLED (Next /\ Running'))
    /\ [][(Running /\ Ended') => clock' > track.duration]_vars
    /\ [][((Idle \/ Ended) /\ Running') => \E d \in Difficulty : Start(d)]_vars

\* what the engine does instead: no operation sets isPaused, so a run is never
\* paused; it leaves running only by ending, and only start() enters running
C17_NeverPaused ==
    /\ [](~state.isPaused)
    /\ [][(Running /\ ~Running') => (Ended' /\ clock' > track.duration)]_vars
    /\ [][(~Running /\ Running') => \E d \in Difficulty : Start(d)]_vars

---------------------------------------------------------------------------
(* Claims about the generator and the tier table *)

\* the pattern of the step of generateTrack's loop taken last
LastPattern == getPattern(probe.difficulty, probe.i - 1)

\* C18: for each tier and every outcome of the random choices, the notes
\* generateTrack pushes (single, chord and rapid steps alike) have
\* non-decreasing timestamps in generation order, within a step and from one
\* step to the next, and a lane with 0 <= lane < laneCount, laneCount being the
\* tier's number of available keys.
C18_TrackOrdered ==
    LET q         == probe.pushed
        laneCount == Len(DIFFICULTY_SETTINGS[probe.difficulty].availableKeys)
    IN  /\ \A k \in DOMAIN q : 0 <= q[k].lane /\ q[k].lane < laneCount
        /\ \A k \in 1 .. (Len(q) - 1) : q[k].time <= q[k + 1].time
        /\ q # <<>> => probe.lastTime <= q[1].time

\* a rapid burst just pushed, its notes spread in time, one in the last lane;
\* the step before it pushed a note as well
C18_Witness ==
    LET q == probe.pushed
    IN  /\ probe.i >= 2
        /\ LastPattern.type = "rapid"
        /\ Len(q) = LastPattern.notes
        /\ q[1].time < q[Len(q)].time
        /\ probe.lastTime > 0
        /\ \E k \in DOMAIN q :
              q[k].lane = Len(DIFFICULTY_SETTINGS[probe.difficulty].availableKeys) - 1

\* C19: every tier's judgment windows are strictly ordered, perfect < good <
\* bad, every tier has at least one available key, and the engine's lane count
\* is the number of available keys of its tier.
C19_TierTable ==
    /\ \A d \in Difficulty :
          LET w == DIFFICULTY_SETTINGS[d].judgmentWindow
          IN  /\ 0 < w.perfect
              /\ w.perfect < w.good
              /\ w.good < w.bad
              /\ Len(DIFFICULTY_SETTINGS[d].availableKeys) >= 1
    /\ config.laneCount = Len(DIFFICULTY_SETTINGS[difficultyConfig].availableKeys)

\* a run of tier expert, twelve lanes
C19_Witness ==
    /\ state.isPlaying
    /\ difficultyConfig = "expert"
    /\ config.laneCount = 12
    /\ Len(DIFFICULTY_SETTINGS["expert"].availableKeys) = 12

\* C20: a chord step of generateTrack pushes min(count, laneCount) notes, count
\* being 2, all with the same timestamp and with pairwise distinct lanes.
C20_ChordStep ==
    (probe.i >= 1 /\ LastPattern.type = "chord") =>
        LET q         == probe.pushed
            laneCount == Len(DIFFICULTY_SETTINGS[probe.difficulty].availableKeys)
        IN  /\ LastPattern.notes = 2
            /\ Len(q) = Min(LastPattern.notes, laneCount)
            /\ \A k \in DOMAIN q : q[k].time = q[1].time
            /\ \A j, k \in DOMAIN q : j # k => q[j].lane # q[k].lane
            /\ probe.currentTime > q[1].time

\* the chord of a Hard track (step 25) just pushed
C20_Witness ==
    /\ probe.difficulty = "hard"
    /\ probe.i = 26
    /\ LastPattern.type = "chord"
    /\ Len(probe.pushed) = 2
    /\ probe.pushed[1].lane < probe.pushed[2].lane

\* the chord steps among the noteCount steps of tier d's configured profile
ChordSteps(d) ==
    Cardinality({i \in 0 .. (DIFFICULTY_SETTINGS[d].noteCount - 1) :
                    getPattern(d, i).type = "chord"})

\* C21: higher tiers chord less often, not more: a track generated from a
\* configured profile has no chord step at Easy, at least as many at Normal as
\* a Hard track has, and at least as many at Hard as an Expert track has.
C21_ChordsDecrease ==
    probe.returned =>
        CASE probe.difficulty = "easy"   -> probe.chords = 0
          [] probe.difficulty = "normal" -> probe.chords >= ChordSteps("hard")
          [] probe.difficulty = "hard"   -> /\ ChordSteps("normal") >= probe.chords
                                            /\ probe.chords >= ChordSteps("expert")
          [] probe.difficulty = "expert" -> ChordSteps("hard") >= probe.chords

\* C22: generateTrack walks a cursor that starts at the 2000 ms lead-in and
\* advances by beatInterval x durationFactor (beatInterval = 60000 / bpm ms)
\* after each of the noteCount steps: the first note's time is exactly 2000
\* ms, every note's time is at least 2000 ms and strictly less than the cursor
\* after its step (which only grows, so less than the cursor after the last
\* step), and the track's duration is the cursor after the last step plus
\* 2000 ms.
C22_CursorWalk ==
    /\ [](~probe.thrown =>
            LET q == probe.pushed
            IN  /\ probe.i = 0 => (probe.currentTime = Ms(2000) /\ q = <<>>)
                /\ probe.i = 1 => q[1].time = Ms(2000)
                /\ \A k \in DOMAIN q :
                      q[k].time >= Ms(2000) /\ q[k].time < probe.currentTime
                /\ probe.returned =>
                      /\ probe.i = probe.config.noteCount
                      /\ probe.duration = probe.currentTime + Ms(2000))
    /\ [][/\ probe'.i = probe.i + 1 =>
               (probe'.currentTime - probe.currentTime) * probe.config.bpm * 10 =
                   Ms(60 * 1000) * getPattern(probe.difficulty, probe.i).duration
          /\ probe'.i = probe.i => probe'.currentTime = probe.currentTime]_vars

\* an Expert track returned after its 28 steps
C22_Witness ==
    /\ probe.returned
    /\ probe.difficulty = "expert"
    /\ probe.i = 28
    /\ probe.currentTime > Ms(2000)
    /\ probe.duration = probe.currentTime + Ms(2000)

\* the time of the last note generateTrack pushed
LastNoteTime == probe.pushed[Len(probe.pushed)].time

\* C23 as stated: track.duration minus the time of the last note is the same
\* constant, the fixed trailing margin of 2000 ms, for every tier and track.
C23_FixedMargin ==
    probe.returned => probe.duration - LastNoteTime = Ms(2000)

\* 2000 ms plus the advance of the cursor after the last step of tier d, in ms
TierGap(d) ==
    CASE d = "easy" -> 3125 [] d = "normal" -> 2500
      [] d = "hard" -> 2300 [] d = "expert" -> 2225

\* C23, amended: track.duration minus the time of the last note is the
\* trailing margin of 2000 ms plus the advance of the cursor after the last
\* step, beatInterval x durationFactor of that step: 3125 ms at Easy, 2500 at
\* Normal, 2300 at Hard, 2225 at Expert; the same for every track of a tier,
\* not the same for every tier.
C23_MarginAfterCursor ==
    probe.returned =>
        LET gap  == probe.duration - LastNoteTime
            last == getPattern(probe.difficulty, probe.config.noteCount - 1)
        IN  /\ gap = Ms(TierGap(probe.difficulty))
            /\ (gap - Ms(2000)) * probe.config.bpm * 10 = Ms(60 * 1000) * last.duration

\* a Hard track returned: 2300 ms from its last note to its end
C23_Witness ==
    /\ probe.returned
    /\ probe.difficulty = "hard"
    /\ probe.duration - LastNoteTime = Ms(2300)

\* every available key of profile cfg has a base frequency in NOTES
Resolvable(cfg) ==
    \A k \in DOMAIN cfg.availableKeys : cfg.availableKeys[k] \in DOMAIN NOTES

\* C24: generateTrack on a profile with an available key that NOTES cannot
\* resolve never returns a track, whatever the random lanes; on a profile
\* whose keys all resolve it never throws.
C24_CorruptProfileAborts ==
    /\ probe.returned => Resolvable(probe.config)
    /\ probe.thrown => ~Resolvable(probe.config)

---------------------------------------------------------------------------
(* Claims about the audio-cue bundle *)

\* C25 as stated: the cue bundles getEffects gives two different categories
\* differ in waveform, in volume, in detune and in filter cutoff, and the
\* bundle depends on the category alone.
C25_AllDistinct ==
    \A m, n \in DOMAIN probe :
        /\ probe[m].result.type = probe[n].result.type =>
              probe[m].effects = probe[n].effects
        /\ probe[m].result.type # probe[n].result.type =>
              /\ probe[m].effects.waveform # probe[n].effects.waveform
              /\ probe[m].effects.volume # probe[n].effects.volume
              /\ probe[m].effects.detune # probe[n].effects.detune
              /\ probe[m].effects.filterFreq # probe[n].effects.filterFreq

\* C25, amended: the bundle depends on the category alone (not on the tier,
\* the times judged or the calls before); two different categories differ in
\* volume, in detune and in filter cutoff (and in reverb), and in waveform
\* except for perfect and good, which are both sine (bad is square, miss
\* sawtooth).
C25_DistinctButWaveform ==
    \A m, n \in DOMAIN probe :
        LET tm == probe[m].result.type
            tn == probe[n].result.type
            em == probe[m].effects
            en == probe[n].effects
        IN  /\ tm = tn => em = en
            /\ tm # tn =>
                  /\ em.volume # en.volume
                  /\ em.detune # en.detune
                  /\ em.filterFreq # en.filterFreq
                  /\ em.reverb # en.reverb
                  /\ (em.waveform = en.waveform) <=> ({tm, tn} = {"perfect", "good"})
            /\ em.waveform = CASE tm \in {"perfect", "good"} -> "sine"
                               [] tm = "bad" -> "square"
                               [] tm = "miss" -> "sawtooth"

\* a perfect and a good judgment side by side: the same waveform, the other
\* three parameters different
C25_Witness ==
    /\ Len(probe) = 2
    /\ probe[1].result.type = "perfect"
    /\ probe[2].result.type = "good"
    /\ probe[1].effects.waveform = probe[2].effects.waveform
    /\ probe[1].effects.volume > probe[2].effects.volume
    /\ probe[1].effects.detune < probe[2].effects.detune
    /\ probe[1].effects.filterFreq > probe[2].effects.filterFreq

---------------------------------------------------------------------------
(* Claims about the keyboard *)

\* the keys of keyMap the keyboard of SpecKeys sends
MappedKeys == KeyboardKeys \cap DOMAIN keyMap

\* the key whose keydown the step handled: the one it added to pressedKeys
Pressed(key) == key \notin pressedKeys /\ pressedKeys' = pressedKeys \cup {key}

\* C26: key-repeat suppression.  While a mapped key is held (from its keydown
\* to its next keyup) a further keydown of it changes nothing, so a press
\* gives exactly one lane input; a keydown of a mapped key that is not held
\* gives a lane input whenever the engine accepts its lane, whichever other
\* keys are held; every lane input of the keyboard comes with a key that was
\* not held and now is; a keyup gives no lane input.
C26_RepeatSuppressed ==
    /\ [](\A key \in MappedKeys :
            /\ key \in pressedKeys => ~ENABLED <<KeyDown(key, FALSE)>>_vars
            /\ (key \notin pressedKeys /\ InputBudget
                  /\ accepts(state, config, keyMap[key])) =>
                 ENABLED (KeyDown(key, FALSE) /\ inputs' = inputs + 1 /\ Pressed(key)))
    /\ [][inputs' = inputs + 1 => \E key \in MappedKeys : Pressed(key)]_vars
    /\ [][(pressedKeys' # pressedKeys /\ pressedKeys' \subseteq pressedKeys) =>
             /\ Cardinality(pressedKeys \ pressedKeys') = 1
             /\ inputs' = inputs
             /\ state' = state
             /\ activeNotes' = activeNotes
             /\ out' = out]_vars

\* two keys pressed one after the other, both still held, each hit its note
C26_Witness ==
    /\ state.isPlaying
    /\ inputs = 2
    /\ pressedKeys = {"a", "s"}
    /\ Len(out.cues) = 2
    /\ out.cues[1].frequency # out.cues[2].frequency

\* the table of the claim: a s d f g h j k l on lanes 0..8, b n m on 9..11
ClaimedLane ==
    [k \in {"a", "s", "d", "f", "g", "h", "j", "k", "l", "b", "n", "m"} |->
        CASE k = "a" -> 0 [] k = "s" -> 1 [] k = "d" -> 2 [] k = "f" -> 3
          [] k = "g" -> 4 [] k = "h" -> 5 [] k = "j" -> 6 [] k = "k" -> 7
          [] k = "l" -> 8 [] k = "b" -> 9 [] k = "n" -> 10 [] k = "m" -> 11]

\* C27: the key -> lane table is the fixed, injective table a s d f g h j k l
\* -> 0..8, b n m -> 9..11, in every state of every run and tier; a lane input
\* of the keyboard is an input on the lane the table gives the key pressed
\* (the note it resolves is a note of that lane); a key outside the table is
\* never held and gives no lane input.
C27_KeyTable ==
    /\ [](/\ keyMap = ClaimedLane
          /\ \A j, k \in DOMAIN keyMap : keyMap[j] = keyMap[k] => j = k
          /\ pressedKeys \subseteq DOMAIN ClaimedLane)
    /\ [][inputs' = inputs + 1 =>
             \E key \in DOMAIN ClaimedLane :
                /\ Pressed(key)
                /\ LaneStep(ClaimedLane[key])
                /\ \A i \in Flipped : activeNotes[i].lane = ClaimedLane[key]]_vars

\* the key s hit a note of lane 1
C27_Witness ==
    /\ state.isPlaying
    /\ inputs = 1
    /\ pressedKeys = {"s"}
    /\ Len(out.cues) = 1
    /\ \E i \in DOMAIN activeNotes : ~activeNotes[i].active /\ activeNotes[i].lane = 1

\* the pitch the README table (操作方法) gives each key
ReadmePitch ==
    [k \in {"a", "s", "d", "f", "g", "h", "j", "k", "l"} |->
        CASE k = "a" -> "C" [] k = "s" -> "D" [] k = "d" -> "E" [] k = "f" -> "F"
          [] k = "g" -> "G" [] k = "h" -> "A" [] k = "j" -> "B" [] k = "k" -> "C#"
          [] k = "l" -> "D#"]

\* C28: in every difficulty, the cue a key press plays when it hits a note has
\* the pitch the README table assigns to the key.
C28_ReadmePitch ==
    [][(inputs' = inputs + 1 /\ Len(out'.cues) = Len(out.cues) + 1) =>
          \E key \in DOMAIN ReadmePitch :
             /\ Pressed(key)
             /\ out'.cues[Len(out'.cues)].frequency =
                    noteToFrequency(ReadmePitch[key], 4)]_vars

---------------------------------------------------------------------------
(* Claims about pointer routing *)

\* n * laneWidth, the width of the lane band, for geometry cfg
BandWidth(cfg) ==
    IF MaxLaneWidth * cfg.laneCount <= cfg.canvasWidth
    THEN MaxLaneWidth * cfg.laneCount ELSE cfg.canvasWidth

\* x lies in lane L of geometry cfg: startX + L * laneWidth <= x and
\* x < startX + (L + 1) * laneWidth, with startX = (canvasWidth - band) / 2 and
\* laneWidth = band / laneCount, multiplied through by 2 * laneCount
InLane(x, L, cfg) ==
    LET n  == cfg.laneCount
        S2 == n * (cfg.canvasWidth - BandWidth(cfg))
    IN  /\ S2 + 2 * L * BandWidth(cfg) <= 2 * n * x
        /\ 2 * n * x < S2 + 2 * (L + 1) * BandWidth(cfg)

\* C29: a pointer at x inside the lane band (startX <= x < startX + laneCount *
\* laneWidth) produces the input of lane floor((x - startX) / laneWidth), a
\* pointer outside produces nothing, every lane produced is in 0 .. laneCount-1;
\* at the band's exact left edge the lane is 0 and at its exact right edge
\* nothing is produced.
C29_PointerRouting ==
    probe.called =>
      LET cfg == probe.config
          n   == cfg.laneCount
      IN  /\ probe.lane # NoLane =>
               probe.lane \in 0 .. (n - 1) /\ InLane(probe.x, probe.lane, cfg)
          /\ probe.lane = NoLane => \A L \in 0 .. (n - 1) : ~InLane(probe.x, L, cfg)
          /\ 2 * probe.x = cfg.canvasWidth - BandWidth(cfg) => probe.lane = 0
          /\ 2 * probe.x = cfg.canvasWidth + BandWidth(cfg) => probe.lane = NoLane

\* a pointer in the last of twelve lanes two thirds of 100 px wide
C29_Witness ==
    /\ probe.called
    /\ probe.config = [canvasWidth |-> 800, laneCount |-> 12]
    /\ probe.x = 734
    /\ probe.lane = 11

---------------------------------------------------------------------------
(* Claims about the recording *)

\* the cue bundles of the three judgments that count as a hit
HitBundles == {getEffects(t) : t \in {"perfect", "good", "bad"}}

\* C30: the recording handed to onGameEnd has one entry per note hit with a
\* perfect, good or bad judgment in that run, each with the cue bundle of such
\* a judgment and none with the bundle of a miss, so its length is
\* perfectCount + goodCount + badCount of the final state.
C30_MissNotRecorded ==
    \A k \in DOMAIN out.gameEnd :
      LET final == out.gameEnd[k].state
          rec   == out.gameEnd[k].recording
      IN  /\ Len(rec) = final.perfectCount + final.goodCount + final.badCount
          /\ \A j \in DOMAIN rec : rec[j].effects \in HitBundles

---------------------------------------------------------------------------
(* Claims about selection and classification *)

\* C31: a note selected by a lane input is classified perfect, good or bad,
\* never miss, although the clock is read once for the selection and again for
\* the classification: the cue played for it has the bundle of a hit and the
\* step leaves missCount as it was.
C31_SelectedNeverMiss ==
    [][(inputs' = inputs + 1 /\ Len(out'.cues) = Len(out.cues) + 1) =>
          /\ out'.cues[Len(out'.cues)].effects \in HitBundles
          /\ state'.missCount = state.missCount]_vars

---------------------------------------------------------------------------
(* Claims about inputs after dispose() *)

\* C32: after dispose() during a run, until the next start() (which schedules
\* a frame again), every lane input is rejected: no step changes the score, the
\* combo, a counter or a note's flag, and none plays an audio cue.
C32_DisposedRejectsInput ==
    [][(Disposed /\ animationId' = NoHandle) =>
          /\ state' = state
          /\ activeNotes' = activeNotes
          /\ out'.cues = out.cues
          /\ inputs' = inputs]_vars

---------------------------------------------------------------------------
(* Claims about the end of a run *)

\* C33: with frame callbacks delivered while the clock advances, and neither
\* dispose() nor another start() during the run, every started run eventually
\* ends and hands its result to onGameEnd, whatever lane inputs arrive.
C33_RunEventuallyEnds ==
    state.isPlaying ~> (~state.isPlaying /\ Len(out.gameEnd) = 1)

\* a run that ended after lane inputs were accepted in it
C33_Witness ==
    /\ ~state.isPlaying
    /\ Len(out.gameEnd) = 1
    /\ inputs = MaxInputs
    /\ out.gameEnd[1].state.perfectCount > 0

---------------------------------------------------------------------------
(* Claims about the position of a note *)

\* C34: with fallTime = judgeLineY / noteSpeed * 1000, the position of an
\* active note at elapsed time e is -noteHeight while note.time - e > fallTime,
\* judgeLineY - ((note.time - e) / fallTime) * judgeLineY while
\* 0 <= note.time - e <= fallTime (between the top edge and the line, on the
\* line at e = note.time), and judgeLineY + (e - note.time) * noteSpeed / 1000
\* afterwards; from one frame to the next it never decreases.
C34_NotePosition ==
    probe.frames > 0 =>
      LET noteSpeed   == DIFFICULTY_SETTINGS[probe.difficulty].noteSpeed
          line        == Px(config.judgeLineY)
          timeToJudge == probe.note.time - probe.currentTime
          early       == timeToJudge * noteSpeed > line
      IN  /\ early => probe.y = -Px(config.noteHeight)
          /\ (~early /\ timeToJudge >= 0) =>
                /\ line - probe.y = timeToJudge * noteSpeed
                /\ probe.y >= 0 /\ probe.y <= line
          /\ timeToJudge = 0 => probe.y = line
          /\ timeToJudge < 0 => probe.y - line = (-timeToJudge) * noteSpeed
          /\ probe.before <= probe.y

\* the frame that finds the note on the judgment line after one that found it
\* above
C34_Witness ==
    /\ probe.frames = 2
    /\ probe.currentTime = probe.note.time
    /\ probe.y = Px(config.judgeLineY)
    /\ probe.before < probe.y
    /\ probe.before > 0

---------------------------------------------------------------------------
(* Claims about getChord's loop *)

\* C35: getChord(availableKeys, count) terminates for every lane count >= 1
\* and every count >= 0, provided the random source does not avoid a lane
\* forever, and returns exactly min(count, laneCount) distinct lanes in
\* ascending order.
C35_ChordTerminates ==
    /\ <>probe.returned
    /\ [](probe.returned =>
            LET q == probe.result
                n == Len(probe.availableKeys)
            IN  /\ Len(q) = Min(probe.count, n)
                /\ \A k \in DOMAIN q : q[k] \in 0 .. (n - 1)
                /\ \A k \in 1 .. (Len(q) - 1) : q[k] < q[k + 1]
                /\ q \in getChord(probe.availableKeys, probe.count))

\* a call for more lanes than there are: both lanes of two returned in order,
\* although drawn from the last one down
C35_Witness ==
    /\ probe.returned
    /\ Len(probe.availableKeys) = 2
    /\ probe.count = 3
    /\ probe.lanes = <<1, 0>>
    /\ probe.result = <<0, 1>>


\* C36: in each tier the sweep takes a note only after its bad window has
\* closed: at a frame whose elapsed time is within the bad window of the note's
\* time the note is not past the miss threshold, since the note needs
\* 200 / noteSpeed seconds from the line to the threshold, more than the tier's
\* bad window.
C36_SweepAfterBadWindow ==
    /\ \A d \in Difficulty :
         MissSlack * 1000 > DIFFICULTY_SETTINGS[d].judgmentWindow.bad
                              * DIFFICULTY_SETTINGS[d].noteSpeed
    /\ probe.frames > 0 =>
         LET bad == Ms(DIFFICULTY_SETTINGS[probe.difficulty].judgmentWindow.bad)
         IN  Abs(probe.currentTime - probe.note.time) <= bad =>
               ~pastMissThreshold(probe.y, config)

\* a frame at the late edge of the Easy tier's bad window: the note is below
\* the line and not past the threshold
C36_Witness ==
    /\ probe.frames > 0
    /\ probe.difficulty = "easy"
    /\ probe.currentTime - probe.note.time = Ms(350)
    /\ probe.y > Px(config.judgeLineY)
    /\ ~pastMissThreshold(probe.y, config)


\* C37: when a run has ended no note of its track is still active: each was
\* hit by an input or swept as a miss before onGameEnd, so the four counters
\* add up to at least the number of notes; in each tier the margin
\* generateTrack leaves after the last note is longer than the 200 / noteSpeed
\* seconds a note needs from the line to the sweep threshold.
C37_EndedAllResolved ==
    /\ \A d \in Difficulty :
         TrailingMargin * DIFFICULTY_SETTINGS[d].noteSpeed > MissSlack * 1000
    /\ (~state.isPlaying /\ Len(out.gameEnd) = 1) =>
         /\ \A i \in DOMAIN activeNotes : ~activeNotes[i].active
         /\ Judged(state) >= Len(activeNotes)
         /\ Judged(out.gameEnd[1].state) >= Len(activeNotes)

\* an ended run of two notes, one hit and one swept
C37_Witness ==
    /\ ~state.isPlaying
    /\ Len(out.gameEnd) = 1
    /\ Len(activeNotes) = 2
    /\ state.perfectCount = 1
    /\ state.missCount = 1
    /\ Len(out.cues) = 1

---------------------------------------------------------------------------
(* Claims about the counters of a run *)

\* C38: in every state of a run the score is 100 * perfectCount +
\* 50 * goodCount + 10 * badCount and the combo is at most perfectCount +
\* goodCount; within the run the score never decreases.
C38_ScoreFromCounts ==
    /\ [](/\ state.score = 100 * state.perfectCount + 50 * state.goodCount
                             + 10 * state.badCount
          /\ state.combo <= state.perfectCount + state.goodCount
          /\ state.combo >= 0)
    /\ [][SameRun => state'.score >= state.score]_vars

\* a run after a perfect hit and a bad one: the bad hit reset the combo and
\* added its ten points
C38_Witness ==
    /\ state.isPlaying
    /\ state.perfectCount = 1
    /\ state.badCount = 1
    /\ state.score = 110
    /\ state.combo = 0
    /\ out.judgments = <<"PERFECT!", "Bad">>


\* the sweep misses of the run so far: score updates not made by a lane input
SweepMisses == Len(out.scoreUpdates) - inputs

\* the accepted lane inputs of the run so far that found no eligible note
NoTargetInputs == inputs - Len(out.cues)

\* C39: in every state of a run the number of inactive notes is perfectCount +
\* goodCount + badCount plus the number of sweep misses, and missCount is the
\* number of sweep misses plus the number of accepted inputs that found no
\* eligible note; so perfectCount + goodCount + badCount is at most the number
\* of notes.
C39_CountersMatchNotes ==
    LET hits     == state.perfectCount + state.goodCount + state.badCount
        inactive == Cardinality({i \in DOMAIN activeNotes : ~activeNotes[i].active})
    IN  /\ inactive = hits + SweepMisses
        /\ state.missCount = SweepMisses + NoTargetInputs
        /\ hits <= Len(activeNotes)

=============================================================================
